---- MODULE Spec2Model ----
(***************************************************************************)
(* Withdrawal state machine of main_telebot.py: the per-user withdrawal    *)
(* conversation state, the fee-payment ledger, the confirmation-accrual    *)
(* task, the atomic withdrawal gate and the text router.                   *)
(*                                                                         *)
(* Handlers run on the two worker threads of telebot.TeleBot (threaded),   *)
(* each handler wrapping its coroutine in asyncio.run: a handler is a      *)
(* sequence of steps, one per database call, and the steps of the two      *)
(* workers interleave.  The Database class (bot.database) is not part of   *)
(* the source file; its operations are modelled from sections 4.2 and 4.4  *)
(* of the specification.                                                   *)
(*                                                                         *)
(* Spec        the withdrawal flow of the program as shipped: the event    *)
(*             loop of asyncio.run is torn down when the handler's         *)
(*             coroutine returns.                                          *)
(* SpecLive    the same handlers with the accrual task kept alive by a     *)
(*             persistent event loop, as section 4.3 of the specification  *)
(*             describes the scheduler.                                    *)
(* SpecPure    the pure functions applied to inputs drawn from bounded     *)
(*             sets.                                                       *)
(* SpecFee     the TXID flow and the gate for a withdrawal asset whose fee *)
(*             is settled in another asset (USDT, fee in ETH), with the    *)
(*             accrual task kept alive.                                    *)
(* SpecDeposit the deposit requests and their approval or rejection by    *)
(*             the admin.                                                  *)
(* SpecRouter  the text router with the callbacks that fill its buckets:   *)
(*             trader id, wallet connection, admin balance and ban         *)
(*             operations, and the withdrawal state up to the TXID entry.  *)
(***************************************************************************)
EXTENDS Integers, Sequences, FiniteSets, TLC

\* ---------------------------------------------------------------- bounds

\* inbound events (text messages, callbacks, sell orders) in one run
MaxEvents == 4

\* whitespace characters around a raw text
MaxPad == 1

\* ------------------------------------------------------ program constants

\* withdrawal fee in percent (token_amount * 0.10)
FeeRatePct == 10

\* amounts are integers scaled by 10: 20 stands for a holding of 2.0
InitialHolding == 20

\* amount of one sell order
SellUnit == 10

\* largest amount the fee rule is applied to on its own
MaxAmount == 25

\* deposit requests in one run
MaxDeposits == 2

\* default of get_token_confirmation_requirement
DefaultConfirmations == 3

\* address length limits of process_withdrawal_address_input
MinAddressLen == 20
MaxAddressLen == 100

\* len(reason) < 3
MinReasonLen == 3

Users == {"u1", "u2"}

Tokens == {"BTC", "SOL"}

\* a withdrawal asset whose fee is settled in another asset
FeeTokens == {"USDT"}

AllTokens == Tokens \cup FeeTokens

Workers == {1, 2}

\* config.ADMIN_USER_ID
ADMIN_USER_ID == "u1"

\* callback data connect_wallet_<type>
WalletTypes == {"MetaMask", "Phantom"}

\* callback data admin_curr_<currency>
Currencies == {"USD"}

\* ------------------------------------------------------------ text inputs

\* A text is described by what the validators look at: its length, whether
\* it starts with "0x", and the alphabet of the characters after that
\* prefix; id tells texts of the same shape apart.
TxHex == [id |-> 1, len |-> 64, ox |-> FALSE, cs |-> "hex"]

TxB58 == [id |-> 2, len |-> 88, ox |-> FALSE, cs |-> "b58"]

\* ten decimal digits: the only text that int() and float() accept
ShortText == [id |-> 3, len |-> 10, ox |-> FALSE, cs |-> "digits"]

NoTx == [id |-> 0, len |-> 0, ox |-> FALSE, cs |-> "none"]

Texts == {TxHex, TxB58, ShortText}

\* "0x" and 64 hex characters
TxEth == [id |-> 4, len |-> 66, ox |-> TRUE, cs |-> "hex"]

FeeTexts == {TxEth}

\* ------------------------------------------------------------------ state

VARIABLES
    user_withdrawal_states, \* user -> withdrawal conversation state
    ledger,                 \* fee payments, payment id = index
    withdrawals,            \* withdrawal records, withdrawal id = index
    portfolio,              \* user -> token -> holding
    tasks,                  \* accrual task of each fee payment
    workers,                \* the handler threads
    debits,                 \* history: withdrawal debits of the portfolio
    nEvents,                \* inbound events so far
    users_inputting_trader_id, \* users expected to send a trader id
    users_connecting_wallet,   \* user -> wallet type being connected
    admin_balance_operations,  \* user -> balance operation in progress
    admin_ban_operations,      \* user -> ban operation in progress
    user_states,               \* user -> support / bug-report state
    admin_calls,               \* history: admin mutations sent to the db
    call,                      \* the last call of a pure function
    pending_deposits,          \* deposit id -> deposit awaiting the admin
    deposit_log                \* history: deposit requests, credits, rejections

deposit_vars == <<pending_deposits, deposit_log>>

buckets == <<users_inputting_trader_id, users_connecting_wallet,
             admin_balance_operations, admin_ban_operations, user_states,
             admin_calls>>

vars == <<user_withdrawal_states, ledger, withdrawals, portfolio, tasks,
          workers, debits, nEvents, users_inputting_trader_id,
          users_connecting_wallet, admin_balance_operations,
          admin_ban_operations, user_states, admin_calls, call, deposit_vars>>

\* ------------------------------------------------------- pure functions

\* a BTC check that looks at the length only
validate_txid_LengthOnly(txid, token) ==
    IF txid.len = 0 THEN FALSE
    ELSE IF token \in {"BTC"}
         THEN txid.len = 64
    ELSE IF token \in {"ETH", "USDT", "BNB", "MATIC", "LINK"}
         THEN txid.len = 66 /\ txid.ox /\ txid.cs \in {"hex", "both", "digits"}
    ELSE IF token \in {"SOL"}
         THEN txid.len = 88 /\ ~txid.ox /\ txid.cs \in {"b58", "both"}
    ELSE IF token \in {"ADA"}
         THEN txid.len = 64 /\ ~txid.ox /\ txid.cs \in {"hex", "both", "digits"}
    ELSE FALSE

\* the operand is the text after txid.strip()
validate_txid(txid, token) ==
    IF txid.len = 0 THEN FALSE
    ELSE IF token \in {"BTC"}
         THEN txid.len = 64 /\ ~txid.ox /\ txid.cs \in {"hex", "both", "digits"}
    ELSE IF token \in {"ETH", "USDT", "BNB", "MATIC", "LINK"}
         THEN txid.len = 66 /\ txid.ox /\ txid.cs \in {"hex", "both", "digits"}
    ELSE IF token \in {"SOL"}
         THEN txid.len = 88 /\ ~txid.ox /\ txid.cs \in {"b58", "both"}
    ELSE IF token \in {"ADA"}
         THEN txid.len = 64 /\ ~txid.ox /\ txid.cs \in {"hex", "both", "digits"}
    ELSE FALSE

\* variant: an asset missing from the table needs no confirmation
get_token_confirmation_requirement_ZeroDefault(token) ==
    CASE token = "BTC" -> 2
      [] token \in {"ETH", "USDT", "LINK"} -> 6
      [] token \in {"BNB", "MATIC"} -> 3
      [] token = "SOL" -> 1
      [] token = "ADA" -> 5
      [] OTHER -> 0

get_token_confirmation_requirement(token) ==
    CASE token = "BTC" -> 2
      [] token = "ETH" -> 6
      [] token = "USDT" -> 6
      [] token = "BNB" -> 3
      [] token = "MATIC" -> 3
      [] token = "SOL" -> 1
      [] token = "ADA" -> 5
      [] token = "LINK" -> 6
      [] OTHER -> DefaultConfirmations

get_fee_payment_token(withdrawal_token) ==
    CASE withdrawal_token \in {"BTC", "ETH", "SOL", "BNB", "ADA"} -> withdrawal_token
      [] withdrawal_token \in {"USDT", "MATIC", "LINK"} -> "ETH"
      [] OTHER -> "ETH"

\* variant: a flat fee of FeeRatePct units, whatever the amount
WithdrawalFee_Flat(amount) == FeeRatePct

\* token_amount * 0.10
WithdrawalFee(amount) == (amount * FeeRatePct) \div 100

\* --------------------------------------------- withdrawal conversation

NoState ==
    [step |-> "absent", token |-> "none", ctx |-> FALSE, wamount |-> 0,
     fee |-> 0, payment_id |-> 0, txid |-> NoTx, fee_verified |-> FALSE,
     fee_payment_id |-> 0]

InFlow(u) == user_withdrawal_states[u] # NoState

\* ------------------------------------------------- calls of pure functions

NoCall ==
    [fn |-> "none", text |-> NoTx, pad |-> 0, token |-> "none", amount |-> 0,
     ok |-> FALSE, num |-> 0, net |-> 0, handler |-> "none"]

\* the assets of the tables and one asset that no table knows
PureTokens ==
    {"BTC", "ETH", "USDT", "BNB", "MATIC", "SOL", "ADA", "LINK", "DOGE"}

\* the accepted lengths and their neighbours
PureLens == {63, 64, 65, 66, 67, 87, 88, 89}

\* alphabets: hex with a character that base58 lacks, base58 with a character
\* that hex lacks, characters of both, decimal digits with 0, and a character
\* of neither
PureTexts ==
    {NoTx} \cup
    {[id |-> 0, len |-> n, ox |-> o, cs |-> c] :
        n \in PureLens, o \in BOOLEAN,
        c \in {"hex", "b58", "both", "digits", "other"}}

\* a string with pad whitespace characters around the text body
RawText(body, pad) == [body |-> body, pad |-> pad]

\* str.strip()
strip(raw) == raw.body

\* validate_txid(txid, token) on a raw string
CallValidateTxid(body, pad, token) ==
    /\ call = NoCall
    /\ call' = [NoCall EXCEPT !.fn = "validate_txid", !.text = body,
                              !.pad = pad, !.token = token,
                              !.ok = validate_txid(strip(RawText(body, pad)), token)]
    /\ UNCHANGED <<user_withdrawal_states, ledger, withdrawals, portfolio, tasks,
                   workers, debits, nEvents, users_inputting_trader_id,
                   users_connecting_wallet, admin_balance_operations,
                   admin_ban_operations, user_states, admin_calls,
                   deposit_vars>>

\* get_token_confirmation_requirement(token)
CallConfirmationRequirement(token) ==
    /\ call = NoCall
    /\ call' = [NoCall EXCEPT !.fn = "get_token_confirmation_requirement",
                              !.token = token,
                              !.num = get_token_confirmation_requirement(token)]
    /\ UNCHANGED <<user_withdrawal_states, ledger, withdrawals, portfolio, tasks,
                   workers, debits, nEvents, users_inputting_trader_id,
                   users_connecting_wallet, admin_balance_operations,
                   admin_ban_operations, user_states, admin_calls,
                   deposit_vars>>

\* ------------------------------------------------------ admin operations

\* a check that lets every user pass
is_admin_Anyone(u) == TRUE

is_admin(u) == ADMIN_USER_ID # "none" /\ u = ADMIN_USER_ID

\* user_id not in admin_balance_operations / admin_ban_operations
NoOperation ==
    [action |-> "none", step |-> "none", target |-> "none", currency |-> "none"]

\* the user id that the decimal text ShortText denotes
TextUserId == "u2"

\* int(user_input) and float(user_input) succeed on decimal digits only
parses_as_number(text) == text.cs = "digits"

\* -------------------------------------------------------------- workers

\* a worker between two messages; out is the reply of its last handler and
\* res the reason the gate returned to it
IdleWorker(u, out, res) ==
    [pc |-> "idle", user |-> u, text |-> NoTx, token |-> "none",
     amount |-> 0, wid |-> 0, res |-> res, out |-> out]

\* the handler of worker w returns
Finish(w, out, res) ==
    [workers EXCEPT ![w].pc = "idle", ![w].text = NoTx, ![w].amount = 0,
                    ![w].wid = 0, ![w].out = out, ![w].res = res]

\* --------------------------------------------------- fee-payment ledger

PaymentIds == 1..Len(ledger)

get_fee_payment_by_txid(txid) ==
    {p \in PaymentIds : ledger[p].txid = txid}

Consumed(p) == \E i \in 1..Len(withdrawals) : withdrawals[i].fee_payment_id = p

\* a lookup that forgets the consumption by an earlier withdrawal
VerifiedUnconsumed_IgnoringConsumption(u, token) ==
    {p \in PaymentIds : /\ ledger[p].user = u
                        /\ ledger[p].token = token
                        /\ ledger[p].status = "verified"}

VerifiedUnconsumed(u, token) ==
    {p \in PaymentIds : /\ ledger[p].user = u
                        /\ ledger[p].token = token
                        /\ ledger[p].status = "verified"
                        /\ ~Consumed(p)}

MaxOf(S) == CHOOSE x \in S : \A y \in S : y <= x

\* 0 stands for NotFound
find_latest_verified_unconsumed(u, token) ==
    IF VerifiedUnconsumed(u, token) = {} THEN 0
    ELSE MaxOf(VerifiedUnconsumed(u, token))

get_user_verified_fee_payment(u, token) == find_latest_verified_unconsumed(u, token)

\* undelivered counts the progress messages that bot.send_message failed to send
NoTask == [pc |-> "none", conf |-> 0, req |-> 0, undelivered |-> 0]

\* --------------------------------------------------------- initial state

\* A fee payment that an earlier run of the process left in the database.
PersistedPayment(u, status) ==
    [user |-> u, token |-> "BTC", txid |-> TxHex,
     expected_amount |-> WithdrawalFee(InitialHolding),
     withdrawal_token |-> "BTC", withdrawal_amount |-> InitialHolding,
     confirmations |-> IF status = "verified"
                       THEN get_token_confirmation_requirement("BTC") ELSE 0,
     status |-> status]

InitLedgers ==
    {<<>>} \cup {<<PersistedPayment(u, s)>> : u \in Users, s \in {"pending", "verified"}}

NoHolding == [has |-> FALSE, amount |-> 0]

InitPortfolio ==
    [u \in Users |->
        [t \in AllTokens |->
            IF t = "SOL" /\ u = "u2" THEN NoHolding
            ELSE [has |-> TRUE, amount |-> InitialHolding]]]

\* ----------------------------------------------------------- deposits

DepositIds == 1..MaxDeposits

NoDeposit == [user |-> "none", token |-> "none", amount |-> 0]

\* amount of one deposit request
DepositAmount == SellUnit

Requests == {i \in 1..Len(deposit_log) : deposit_log[i].kind = "request"}

Init ==
    /\ user_withdrawal_states = [u \in Users |-> NoState]
    /\ ledger \in InitLedgers
    /\ tasks = [p \in 1..Len(ledger) |-> NoTask]
    /\ withdrawals = <<>>
    /\ portfolio = InitPortfolio
    /\ workers = [w \in Workers |-> IdleWorker("none", "none", "none")]
    /\ debits = <<>>
    /\ nEvents = 0
    /\ users_inputting_trader_id = {}
    /\ users_connecting_wallet = [u \in Users |-> "none"]
    /\ admin_balance_operations = [u \in Users |-> NoOperation]
    /\ admin_ban_operations = [u \in Users |-> NoOperation]
    /\ user_states = [u \in Users |-> "none"]
    /\ admin_calls = {}
    /\ call = NoCall
    /\ pending_deposits = [d \in DepositIds |-> NoDeposit]
    /\ deposit_log = <<>>

\* ------------------------------------------------------------ callbacks

\* variant: a restart that updates the state in place instead of replacing it
FeePaid_Merges(u, t) ==
    /\ nEvents < MaxEvents
    /\ nEvents' = nEvents + 1
    /\ UNCHANGED <<call, deposit_vars>>
    /\ IF ~portfolio[u][t].has
       THEN UNCHANGED user_withdrawal_states
       ELSE user_withdrawal_states' =
              [user_withdrawal_states EXCEPT
                 ![u].step = "awaiting_txid", ![u].token = t, ![u].ctx = TRUE,
                 ![u].wamount = portfolio[u][t].amount,
                 ![u].fee = WithdrawalFee(portfolio[u][t].amount)]
    /\ UNCHANGED <<buckets, ledger, withdrawals, portfolio, tasks, workers, debits>>

\* callback fee_paid_<token>
FeePaid(u, t) ==
    /\ nEvents < MaxEvents
    /\ nEvents' = nEvents + 1
    /\ UNCHANGED <<call, deposit_vars>>
    /\ IF ~portfolio[u][t].has
       THEN UNCHANGED user_withdrawal_states
       ELSE user_withdrawal_states' =
              [user_withdrawal_states EXCEPT ![u] =
                 [step |-> "awaiting_txid", token |-> t, ctx |-> TRUE,
                  wamount |-> portfolio[u][t].amount,
                  fee |-> WithdrawalFee(portfolio[u][t].amount),
                  payment_id |-> 0, txid |-> NoTx, fee_verified |-> FALSE,
                  fee_payment_id |-> 0]]
    /\ UNCHANGED <<buckets, ledger, withdrawals, portfolio, tasks, workers, debits>>

\* callback enter_txid_<token>
EnterTxid(u, t) ==
    /\ nEvents < MaxEvents
    /\ nEvents' = nEvents + 1
    /\ UNCHANGED <<call, deposit_vars>>
    /\ IF InFlow(u)
       THEN user_withdrawal_states' =
              [user_withdrawal_states EXCEPT ![u].step = "entering_txid"]
       ELSE UNCHANGED user_withdrawal_states
    /\ UNCHANGED <<buckets, ledger, withdrawals, portfolio, tasks, workers, debits>>

VerifiedState(t, pid) ==
    [step |-> "entering_address", token |-> t, ctx |-> FALSE, wamount |-> 0,
     fee |-> 0, payment_id |-> 0, txid |-> NoTx, fee_verified |-> TRUE,
     fee_payment_id |-> pid]

\* variant: the callback trusts its button and skips the lookup result
FeeVerified_Unchecked(u, t) ==
    /\ nEvents < MaxEvents
    /\ nEvents' = nEvents + 1
    /\ UNCHANGED <<call, deposit_vars>>
    /\ user_withdrawal_states' =
          [user_withdrawal_states EXCEPT ![u] =
              VerifiedState(t, get_user_verified_fee_payment(u, t))]
    /\ UNCHANGED <<buckets, ledger, withdrawals, portfolio, tasks, workers, debits>>

\* callback fee_verified_<token>
FeeVerified(u, t) ==
    /\ nEvents < MaxEvents
    /\ nEvents' = nEvents + 1
    /\ UNCHANGED <<call, deposit_vars>>
    /\ LET vp == get_user_verified_fee_payment(u, t) IN
       IF vp = 0
       THEN UNCHANGED user_withdrawal_states
       ELSE user_withdrawal_states' =
              [user_withdrawal_states EXCEPT ![u] = VerifiedState(t, vp)]
    /\ UNCHANGED <<buckets, ledger, withdrawals, portfolio, tasks, workers, debits>>

\* callback enter_address_<token>
EnterAddress(u, t) ==
    /\ nEvents < MaxEvents
    /\ nEvents' = nEvents + 1
    /\ UNCHANGED <<call, deposit_vars>>
    /\ IF ~InFlow(u) \/ ~user_withdrawal_states[u].fee_verified
       THEN LET vp == get_user_verified_fee_payment(u, t) IN
            IF vp = 0
            THEN UNCHANGED user_withdrawal_states
            ELSE user_withdrawal_states' =
                   [user_withdrawal_states EXCEPT ![u] = VerifiedState(t, vp)]
       ELSE user_withdrawal_states' =
              [user_withdrawal_states EXCEPT ![u].step = "entering_address"]
    /\ UNCHANGED <<buckets, ledger, withdrawals, portfolio, tasks, workers, debits>>

\* execute_sell_order for SellUnit of token t
Sell(u, t) ==
    /\ nEvents < MaxEvents
    /\ nEvents' = nEvents + 1
    /\ UNCHANGED <<call, deposit_vars>>
    /\ IF ~portfolio[u][t].has \/ portfolio[u][t].amount < SellUnit
       THEN UNCHANGED portfolio
       ELSE portfolio' = [portfolio EXCEPT ![u][t].amount = @ - SellUnit]
    /\ UNCHANGED <<buckets, user_withdrawal_states, ledger, withdrawals, tasks, workers, debits>>

\* ------------------------------------------- callbacks of the other buckets

\* callback withdraw_type_CRYPTO, the target of the Cancel button of the
\* address prompt: the token menu is shown
WithdrawTypeCrypto(w, u) ==
    /\ nEvents < MaxEvents
    /\ nEvents' = nEvents + 1
    /\ UNCHANGED <<call, deposit_vars>>
    /\ workers[w].pc = "idle"
    /\ workers' = [workers EXCEPT ![w] = IdleWorker(u, "token_menu", "none")]
    /\ UNCHANGED <<buckets, user_withdrawal_states, ledger, withdrawals,
                   portfolio, tasks, debits>>

\* callback menu_copy_trading, the target of the Back button of the trader
\* prompt and of the Cancel button of the wallet prompt
MenuCopyTrading(w, u) ==
    /\ nEvents < MaxEvents
    /\ nEvents' = nEvents + 1
    /\ UNCHANGED <<call, deposit_vars>>
    /\ workers[w].pc = "idle"
    /\ workers' = [workers EXCEPT ![w] = IdleWorker(u, "copy_trading_menu", "none")]
    /\ UNCHANGED <<buckets, user_withdrawal_states, ledger, withdrawals,
                   portfolio, tasks, debits>>

\* callback copy_specific_trader: handle_copy_specific_trader once
\* db.is_wallet_connected answers yes
CopySpecificTrader(u) ==
    /\ nEvents < MaxEvents
    /\ nEvents' = nEvents + 1
    /\ UNCHANGED <<call, deposit_vars>>
    /\ \E is_connected \in BOOLEAN :
          users_inputting_trader_id' =
             IF is_connected THEN users_inputting_trader_id \cup {u}
             ELSE users_inputting_trader_id
    /\ UNCHANGED <<users_connecting_wallet, admin_balance_operations,
                   admin_ban_operations, user_states, admin_calls>>
    /\ UNCHANGED <<user_withdrawal_states, ledger, withdrawals, portfolio,
                   tasks, workers, debits>>

\* callback connect_wallet_<wallet_type>: handle_wallet_connection
ConnectWallet(u, wallet_type) ==
    /\ nEvents < MaxEvents
    /\ nEvents' = nEvents + 1
    /\ UNCHANGED <<call, deposit_vars>>
    /\ users_connecting_wallet' = [users_connecting_wallet EXCEPT ![u] = wallet_type]
    /\ UNCHANGED <<users_inputting_trader_id, admin_balance_operations,
                   admin_ban_operations, user_states, admin_calls>>
    /\ UNCHANGED <<user_withdrawal_states, ledger, withdrawals, portfolio,
                   tasks, workers, debits>>

\* {"action": action, "step": "user_id"}
NewOperation(action) ==
    [action |-> action, step |-> "user_id", target |-> "none", currency |-> "none"]

\* callbacks admin_add_balance, admin_subtract_balance, admin_ban_user and
\* admin_unban_user, and the cancel targets admin_balance_mgmt and
\* admin_ban_mgmt, which show a menu
AdminCallback(u, action) ==
    /\ nEvents < MaxEvents
    /\ nEvents' = nEvents + 1
    /\ UNCHANGED <<call, deposit_vars>>
    /\ IF ~is_admin(u)
       THEN UNCHANGED <<admin_balance_operations, admin_ban_operations>>
       ELSE CASE action = "add_balance" ->
                   /\ admin_balance_operations' =
                         [admin_balance_operations EXCEPT ![u] = NewOperation("add")]
                   /\ UNCHANGED admin_ban_operations
              [] action = "subtract_balance" ->
                   /\ admin_balance_operations' =
                         [admin_balance_operations EXCEPT ![u] = NewOperation("subtract")]
                   /\ UNCHANGED admin_ban_operations
              [] action = "ban_user" ->
                   /\ admin_ban_operations' =
                         [admin_ban_operations EXCEPT ![u] = NewOperation("ban")]
                   /\ UNCHANGED admin_balance_operations
              [] action = "unban_user" ->
                   /\ admin_ban_operations' =
                         [admin_ban_operations EXCEPT ![u] = NewOperation("unban")]
                   /\ UNCHANGED admin_balance_operations
              [] OTHER ->
                   UNCHANGED <<admin_balance_operations, admin_ban_operations>>
    /\ UNCHANGED <<users_inputting_trader_id, users_connecting_wallet,
                   user_states, admin_calls>>
    /\ UNCHANGED <<user_withdrawal_states, ledger, withdrawals, portfolio,
                   tasks, workers, debits>>

AdminActions ==
    {"add_balance", "subtract_balance", "ban_user", "unban_user",
     "balance_mgmt", "ban_mgmt"}

\* callback admin_curr_<currency>
AdminCurr(u, currency) ==
    /\ nEvents < MaxEvents
    /\ nEvents' = nEvents + 1
    /\ UNCHANGED <<call, deposit_vars>>
    /\ IF ~is_admin(u)
       THEN UNCHANGED admin_balance_operations
       ELSE IF admin_balance_operations[u] = NoOperation
               \/ admin_balance_operations[u].target = "none"
       THEN \* Session expired
            UNCHANGED admin_balance_operations
       ELSE admin_balance_operations' =
               [admin_balance_operations EXCEPT ![u].currency = currency,
                                                ![u].step = "amount"]
    /\ UNCHANGED <<users_inputting_trader_id, users_connecting_wallet,
                   admin_ban_operations, user_states, admin_calls>>
    /\ UNCHANGED <<user_withdrawal_states, ledger, withdrawals, portfolio,
                   tasks, workers, debits>>

\* ------------------------------------------------------------ text router

\* the handler of worker w replies out to u and returns
Reply(w, u, out) == workers' = [workers EXCEPT ![w] = IdleWorker(u, out, "none")]

\* process_admin_balance_input; the answers of the database are inputs
process_admin_balance_input(w, u, text) ==
    LET operation == admin_balance_operations[u] IN
    /\ UNCHANGED <<users_inputting_trader_id, users_connecting_wallet,
                   admin_ban_operations, user_states>>
    /\ IF operation.step = "user_id"
       THEN IF ~parses_as_number(text)
            THEN /\ Reply(w, u, "invalid_input")
                 /\ UNCHANGED <<admin_balance_operations, admin_calls>>
            ELSE \E user_exists \in BOOLEAN :
                    IF ~user_exists
                    THEN /\ Reply(w, u, "user_not_found")
                         /\ UNCHANGED <<admin_balance_operations, admin_calls>>
                    ELSE /\ admin_balance_operations' =
                               [admin_balance_operations EXCEPT
                                   ![u].target = TextUserId, ![u].step = "currency"]
                         /\ Reply(w, u, "select_currency")
                         /\ UNCHANGED admin_calls
       ELSE IF operation.step = "amount"
       THEN IF ~parses_as_number(text)
            THEN /\ Reply(w, u, "invalid_amount")
                 /\ UNCHANGED <<admin_balance_operations, admin_calls>>
            ELSE \E success \in BOOLEAN :
                    /\ admin_calls' = admin_calls \cup
                          {[fn |-> IF operation.action = "add"
                                   THEN "admin_add_balance"
                                   ELSE "admin_subtract_balance",
                            sender |-> u, target |-> operation.target]}
                    /\ Reply(w, u, IF success THEN "balance_updated"
                                              ELSE "update_failed")
                    /\ admin_balance_operations' =
                          [admin_balance_operations EXCEPT ![u] = NoOperation]
       ELSE \* step "currency": no branch of the handler matches
            /\ Reply(w, u, "none")
            /\ UNCHANGED <<admin_balance_operations, admin_calls>>

\* process_admin_ban_input; the answers of the database are inputs
process_admin_ban_input(w, u, text) ==
    LET operation == admin_ban_operations[u] IN
    /\ UNCHANGED <<users_inputting_trader_id, users_connecting_wallet,
                   admin_balance_operations, user_states>>
    /\ IF operation.step = "user_id"
       THEN IF ~parses_as_number(text)
            THEN /\ Reply(w, u, "invalid_user_id")
                 /\ UNCHANGED <<admin_ban_operations, admin_calls>>
            ELSE \E is_banned \in BOOLEAN, success \in BOOLEAN :
                    IF operation.action = "ban"
                    THEN IF is_banned
                         THEN /\ Reply(w, u, "already_banned")
                              /\ UNCHANGED <<admin_ban_operations, admin_calls>>
                         ELSE /\ admin_ban_operations' =
                                    [admin_ban_operations EXCEPT
                                        ![u].target = TextUserId, ![u].step = "reason"]
                              /\ Reply(w, u, "enter_reason")
                              /\ UNCHANGED admin_calls
                    ELSE IF ~is_banned
                         THEN /\ Reply(w, u, "not_banned")
                              /\ UNCHANGED <<admin_ban_operations, admin_calls>>
                         ELSE /\ admin_calls' = admin_calls \cup
                                    {[fn |-> "unban_user", sender |-> u,
                                      target |-> TextUserId]}
                              /\ Reply(w, u, IF success THEN "user_unbanned"
                                                        ELSE "unban_failed")
                              /\ admin_ban_operations' =
                                    [admin_ban_operations EXCEPT ![u] = NoOperation]
       ELSE IF operation.step = "reason"
       THEN IF text.len < MinReasonLen
            THEN /\ Reply(w, u, "reason_too_short")
                 /\ UNCHANGED <<admin_ban_operations, admin_calls>>
            ELSE \E success \in BOOLEAN :
                    /\ admin_calls' = admin_calls \cup
                          {[fn |-> "ban_user", sender |-> u,
                            target |-> operation.target]}
                    /\ Reply(w, u, IF success THEN "user_banned" ELSE "ban_failed")
                    /\ admin_ban_operations' =
                          [admin_ban_operations EXCEPT ![u] = NoOperation]
       ELSE /\ Reply(w, u, "none")
            /\ UNCHANGED <<admin_ban_operations, admin_calls>>

\* a router that looks at the wallet bucket before the trader-id bucket
Bucket_WalletFirst(u) ==
    IF users_connecting_wallet[u] # "none" THEN "wallet"
    ELSE IF u \in users_inputting_trader_id THEN "trader_id"
    ELSE IF admin_balance_operations[u] # NoOperation THEN "admin_balance"
    ELSE IF admin_ban_operations[u] # NoOperation THEN "admin_ban"
    ELSE IF InFlow(u) THEN "withdrawal"
    ELSE "default"

\* the bucket of handle_text_input that a message of u is dispatched to
Bucket(u) ==
    IF u \in users_inputting_trader_id THEN "trader_id"
    ELSE IF users_connecting_wallet[u] # "none" THEN "wallet"
    ELSE IF admin_balance_operations[u] # NoOperation THEN "admin_balance"
    ELSE IF admin_ban_operations[u] # NoOperation THEN "admin_ban"
    ELSE IF InFlow(u) THEN "withdrawal"
    ELSE IF user_states[u] \in {"waiting_for_support_message",
                                "waiting_for_bug_report"} THEN "support"
    ELSE "default"

\* process_trader_id_input: the trader is found, is not found, or the
\* lookup raises and the except branch answers
TraderOutcomes == {"trader_found", "trader_not_found", "trader_error"}

\* process_wallet_credentials: the format check, then db.connect_wallet,
\* which may raise into the except branch
WalletOutcomes(text) ==
    IF text.len = 64 \/ text.ox
    THEN {"wallet_connected", "wallet_error"}
    ELSE {"invalid_credentials"}

\* variant: the flag is kept for another try unless the trader was found
ConsumeTraderFlag_OnSuccess(u, out) ==
    IF out = "trader_found"
    THEN users_inputting_trader_id \ {u}
    ELSE users_inputting_trader_id

\* users_inputting_trader_id.remove(user_id), before the lookup starts
ConsumeTraderFlag(u, out) == users_inputting_trader_id \ {u}

\* variant: a text is taken for a TXID as soon as the fee was acknowledged
WithdrawalRoute_AwaitingToo(step) ==
    IF step \in {"awaiting_txid", "entering_txid"} THEN "txid_lookup" ELSE "addr_begin"

\* if user_state.get('step') == 'entering_txid': process_txid_input
\* else: process_withdrawal_address_input
WithdrawalRoute(step) ==
    IF step = "entering_txid" THEN "txid_lookup" ELSE "addr_begin"

\* handle_text_input
HandleTextInput(w, u, text) ==
    /\ nEvents < MaxEvents
    /\ nEvents' = nEvents + 1
    /\ UNCHANGED <<call, deposit_vars>>
    /\ workers[w].pc = "idle"
    /\ CASE Bucket(u) = "trader_id" ->
              /\ \E out \in TraderOutcomes :
                    /\ users_inputting_trader_id' = ConsumeTraderFlag(u, out)
                    /\ Reply(w, u, out)
              /\ UNCHANGED <<users_connecting_wallet, admin_balance_operations,
                             admin_ban_operations, user_states, admin_calls>>
         [] Bucket(u) = "wallet" ->
              /\ users_connecting_wallet' = [users_connecting_wallet EXCEPT ![u] = "none"]
              /\ \E out \in WalletOutcomes(text) : Reply(w, u, out)
              /\ UNCHANGED <<users_inputting_trader_id, admin_balance_operations,
                             admin_ban_operations, user_states, admin_calls>>
         [] Bucket(u) = "admin_balance" ->
              IF is_admin(u)
              THEN process_admin_balance_input(w, u, text)
              ELSE /\ admin_balance_operations' =
                         [admin_balance_operations EXCEPT ![u] = NoOperation]
                   /\ Reply(w, u, "none")
                   /\ UNCHANGED <<users_inputting_trader_id, users_connecting_wallet,
                                  admin_ban_operations, user_states, admin_calls>>
         [] Bucket(u) = "admin_ban" ->
              IF is_admin(u)
              THEN process_admin_ban_input(w, u, text)
              ELSE /\ admin_ban_operations' =
                         [admin_ban_operations EXCEPT ![u] = NoOperation]
                   /\ Reply(w, u, "none")
                   /\ UNCHANGED <<users_inputting_trader_id, users_connecting_wallet,
                                  admin_balance_operations, user_states, admin_calls>>
         [] Bucket(u) = "withdrawal" ->
              /\ workers' = [workers EXCEPT ![w] =
                    [IdleWorker(u, "none", "none") EXCEPT
                        !.pc = WithdrawalRoute(user_withdrawal_states[u].step),
                        !.text = text]]
              /\ UNCHANGED buckets
         [] Bucket(u) = "support" ->
              /\ user_states' = [user_states EXCEPT ![u] = "none"]
              /\ Reply(w, u, IF user_states[u] = "waiting_for_support_message"
                             THEN "support_sent" ELSE "bug_report_sent")
              /\ UNCHANGED <<users_inputting_trader_id, users_connecting_wallet,
                             admin_balance_operations, admin_ban_operations,
                             admin_calls>>
         [] OTHER ->
              /\ Reply(w, u, "generic")
              /\ UNCHANGED buckets
    /\ UNCHANGED <<user_withdrawal_states, ledger, withdrawals, portfolio,
                   tasks, debits>>

\* ------------------------------------------------------ process_txid_input

\* a handler that drops the conversation state when the TXID is malformed
TxidLookup_ClearsOnInvalid(w) ==
    /\ workers[w].pc = "txid_lookup"
    /\ LET u == workers[w].user
           st == user_withdrawal_states[u]
           txid == workers[w].text
       IN  IF ~InFlow(u) \/ st.step # "entering_txid"
           THEN /\ workers' = Finish(w, "none", "none")
                /\ UNCHANGED user_withdrawal_states
           ELSE IF ~st.ctx
           THEN /\ workers' = Finish(w, "error", "none")
                /\ UNCHANGED user_withdrawal_states
           ELSE IF ~validate_txid(txid, st.token)
           THEN /\ workers' = Finish(w, "invalid_txid", "none")
                /\ user_withdrawal_states' =
                      [user_withdrawal_states EXCEPT ![u] = NoState]
           ELSE IF get_fee_payment_by_txid(txid) # {}
           THEN /\ workers' = Finish(w, "replay", "none")
                /\ UNCHANGED user_withdrawal_states
           ELSE /\ workers' = [workers EXCEPT ![w].pc = "txid_create",
                                              ![w].token = st.token,
                                              ![w].amount = st.wamount]
                /\ UNCHANGED user_withdrawal_states
    /\ UNCHANGED <<buckets, ledger, withdrawals, portfolio, tasks, debits, nEvents, call, deposit_vars>>

\* a handler that tells the submitter when the earlier payment is their own
TxidLookup_RevealsOwner(w) ==
    /\ workers[w].pc = "txid_lookup"
    /\ LET u == workers[w].user
           st == user_withdrawal_states[u]
           txid == workers[w].text
       IN  IF ~InFlow(u) \/ st.step # "entering_txid"
           THEN workers' = Finish(w, "none", "none")
           ELSE IF ~st.ctx
           THEN workers' = Finish(w, "error", "none")
           ELSE IF ~validate_txid(txid, st.token)
           THEN workers' = Finish(w, "invalid_txid", "none")
           ELSE IF get_fee_payment_by_txid(txid) # {}
           THEN workers' = Finish(w, IF \E p \in get_fee_payment_by_txid(txid) :
                                           ledger[p].user = u
                                     THEN "replay_own" ELSE "replay", "none")
           ELSE workers' = [workers EXCEPT ![w].pc = "txid_create",
                                           ![w].token = st.token,
                                           ![w].amount = st.wamount]
    /\ UNCHANGED <<buckets, user_withdrawal_states, ledger, withdrawals, portfolio,
                   tasks, debits, nEvents, call, deposit_vars>>

\* from the entry of process_txid_input to the reply of get_fee_payment_by_txid
TxidLookup(w) ==
    /\ workers[w].pc = "txid_lookup"
    /\ LET u == workers[w].user
           st == user_withdrawal_states[u]
           txid == workers[w].text
       IN  IF ~InFlow(u) \/ st.step # "entering_txid"
           THEN workers' = Finish(w, "none", "none")
           ELSE IF ~st.ctx
           THEN \* KeyError on withdrawal_state['withdrawal_token']
                workers' = Finish(w, "error", "none")
           ELSE IF ~validate_txid(txid, st.token)
           THEN workers' = Finish(w, "invalid_txid", "none")
           ELSE IF get_fee_payment_by_txid(txid) # {}
           THEN workers' = Finish(w, "replay", "none")
           ELSE workers' = [workers EXCEPT ![w].pc = "txid_create",
                                           ![w].token = st.token,
                                           ![w].amount = st.wamount]
    /\ UNCHANGED <<buckets, user_withdrawal_states, ledger, withdrawals, portfolio,
                   tasks, debits, nEvents, call, deposit_vars>>

\* db.create_fee_payment: 0 stands for Rejected
create_fee_payment(draft) ==
    IF get_fee_payment_by_txid(draft.txid) # {}
    THEN [id |-> 0, ledger |-> ledger]
    ELSE [id |-> Len(ledger) + 1,
          ledger |-> Append(ledger, [draft EXCEPT !.status = "pending",
                                                  !.confirmations = 0])]

\* payment_id = await db.create_fee_payment(payment_data)
TxidCreate(w) ==
    /\ workers[w].pc = "txid_create"
    /\ LET u == workers[w].user
           draft == [user |-> u, token |-> workers[w].token,
                     txid |-> workers[w].text,
                     expected_amount |-> WithdrawalFee(workers[w].amount),
                     withdrawal_token |-> workers[w].token,
                     withdrawal_amount |-> workers[w].amount,
                     confirmations |-> 0, status |-> "pending"]
           r == create_fee_payment(draft)
       IN  /\ ledger' = r.ledger
           /\ IF r.id = 0
              THEN /\ workers' = Finish(w, "system_error", "none")
                   /\ UNCHANGED tasks
              ELSE /\ workers' = [workers EXCEPT ![w].pc = "txid_finish",
                                                 ![w].wid = r.id]
                   /\ tasks' = Append(tasks, NoTask)
    /\ UNCHANGED <<buckets, user_withdrawal_states, withdrawals, portfolio, debits, nEvents, call, deposit_vars>>

\* db.mark_fee_payment_rejected: terminal states are sticky
mark_fee_payment_rejected(l, p) ==
    IF l[p].status = "verified" THEN l
    ELSE [l EXCEPT ![p].status = "rejected"]

\* db.mark_fee_payment_verified: terminal states are sticky
mark_fee_payment_verified(l, p) ==
    IF l[p].status = "rejected" THEN l
    ELSE [l EXCEPT ![p].status = "verified"]

\* db.update_fee_payment_confirmations: monotonic
update_fee_payment_confirmations(l, p, n) ==
    IF n < l[p].confirmations THEN l
    ELSE [l EXCEPT ![p].confirmations = n]

\* The state update, the reply and start_fee_verification_simulation, up to
\* the return of the coroutine.  live: the event loop outlives the handler.
TxidFinishWith(w, live) ==
    /\ workers[w].pc = "txid_finish"
    /\ LET u == workers[w].user
           pid == workers[w].wid
       IN  IF ~InFlow(u)
           THEN \* KeyError on user_withdrawal_states[user_id]
                /\ workers' = Finish(w, "error", "none")
                /\ UNCHANGED <<user_withdrawal_states, tasks, ledger>>
           ELSE /\ user_withdrawal_states' =
                      [user_withdrawal_states EXCEPT ![u].step = "verifying",
                                                     ![u].payment_id = pid,
                                                     ![u].txid = workers[w].text]
                /\ workers' = Finish(w, "verifying", "none")
                /\ LET req == get_token_confirmation_requirement(workers[w].token) IN
                   IF live
                   THEN /\ tasks' = [tasks EXCEPT ![pid] =
                                        [pc |-> "sleep", conf |-> 1, req |-> req,
                                         undelivered |-> 0]]
                        /\ UNCHANGED ledger
                   ELSE \* asyncio.run cancels the task in its first sleep;
                        \* CancelledError is an Exception before Python 3.8
                        \E caught \in BOOLEAN :
                           /\ tasks' = [tasks EXCEPT ![pid] =
                                 [pc |-> "cancelled", conf |-> 1, req |-> req,
                                  undelivered |-> 0]]
                           /\ ledger' = IF caught
                                        THEN mark_fee_payment_rejected(ledger, pid)
                                        ELSE ledger
    /\ UNCHANGED <<buckets, withdrawals, portfolio, debits, nEvents, call, deposit_vars>>

\* variant: the handler awaits simulate_blockchain_confirmations instead of
\* handing it to asyncio.create_task, so it returns only after a delay
TxidFinishLive_AwaitsDelay(w) ==
    /\ workers[w].pc = "txid_finish"
    /\ LET u == workers[w].user
           pid == workers[w].wid
       IN  IF ~InFlow(u)
           THEN /\ workers' = Finish(w, "error", "none")
                /\ UNCHANGED <<user_withdrawal_states, tasks, ledger>>
           ELSE /\ user_withdrawal_states' =
                      [user_withdrawal_states EXCEPT ![u].step = "verifying",
                                                     ![u].payment_id = pid,
                                                     ![u].txid = workers[w].text]
                /\ workers' = Finish(w, "verifying", "none")
                /\ tasks' = [tasks EXCEPT ![pid] =
                      [pc |-> "notify", conf |-> 1,
                       req |-> get_token_confirmation_requirement(workers[w].token),
                       undelivered |-> 0]]
                /\ ledger' = update_fee_payment_confirmations(ledger, pid, 1)
    /\ UNCHANGED <<buckets, withdrawals, portfolio, debits, nEvents, call, deposit_vars>>

TxidFinish(w) == TxidFinishWith(w, FALSE)

TxidFinishLive(w) == TxidFinishWith(w, TRUE)

\* ------------------------------------------- atomic withdrawal gate

\* a gate that does not compare the amount with the holding
atomic_create_NoHoldingCheck(u, token, amount, address) ==
    LET fee_token == get_fee_payment_token(token)
        pid == find_latest_verified_unconsumed(u, fee_token)
    IN  IF pid = 0
        THEN [success |-> FALSE, reason |-> "no_verified_fee_payment",
              withdrawal_id |-> 0, withdrawals |-> withdrawals]
        ELSE [success |-> TRUE, reason |-> "ok",
              withdrawal_id |-> Len(withdrawals) + 1,
              withdrawals |-> Append(withdrawals,
                 [user |-> u, token |-> token, amount |-> amount,
                  fee_amount |-> WithdrawalFee(amount), fee_token |-> fee_token,
                  net_amount |-> amount - WithdrawalFee(amount),
                  fee_payment_id |-> pid, fee_txid |-> ledger[pid].txid,
                  to_address |-> address])]

\* db.atomic_create_verified_withdrawal: the result and the withdrawal table
atomic_create_verified_withdrawal(u, token, amount, address) ==
    LET fee_token == get_fee_payment_token(token)
        pid == find_latest_verified_unconsumed(u, fee_token)
    IN  IF pid = 0
        THEN [success |-> FALSE, reason |-> "no_verified_fee_payment",
              withdrawal_id |-> 0, withdrawals |-> withdrawals]
        ELSE IF ~portfolio[u][token].has \/ amount > portfolio[u][token].amount
        THEN [success |-> FALSE, reason |-> "insufficient_holding",
              withdrawal_id |-> 0, withdrawals |-> withdrawals]
        ELSE [success |-> TRUE, reason |-> "ok",
              withdrawal_id |-> Len(withdrawals) + 1,
              withdrawals |-> Append(withdrawals,
                 [user |-> u, token |-> token, amount |-> amount,
                  fee_amount |-> WithdrawalFee(amount), fee_token |-> fee_token,
                  net_amount |-> amount - WithdrawalFee(amount),
                  fee_payment_id |-> pid, fee_txid |-> ledger[pid].txid,
                  to_address |-> address])]

\* ----------------------------------- process_withdrawal_address_input

\* from the entry to the reply of db.get_user_portfolio
AddrBegin(w) ==
    /\ workers[w].pc = "addr_begin"
    /\ LET u == workers[w].user
           st == user_withdrawal_states[u]
           address == workers[w].text
       IN  IF ~InFlow(u)
           THEN /\ workers' = Finish(w, "none", "none")
                /\ UNCHANGED user_withdrawal_states
           ELSE IF address.len < MinAddressLen \/ address.len > MaxAddressLen
           THEN /\ workers' = Finish(w, "invalid_address", "none")
                /\ UNCHANGED user_withdrawal_states
           ELSE IF ~portfolio[u][st.token].has
           THEN /\ workers' = Finish(w, "token_not_found", "none")
                /\ user_withdrawal_states' = [user_withdrawal_states EXCEPT ![u] = NoState]
           ELSE /\ workers' = [workers EXCEPT ![w].pc = "addr_gate",
                                              ![w].token = st.token,
                                              ![w].amount = portfolio[u][st.token].amount]
                /\ UNCHANGED user_withdrawal_states
    /\ UNCHANGED <<buckets, ledger, withdrawals, portfolio, tasks, debits, nEvents, call, deposit_vars>>

\* a handler that goes on to the debit after a rejection
AddrRejected_Bypass(w, reason) ==
    /\ workers' = [workers EXCEPT ![w].pc = "addr_debit", ![w].res = reason]
    /\ UNCHANGED <<user_withdrawal_states, portfolio, debits>>

\* a handler that reports the rejection and debits the holding all the same
AddrRejected_Debits(w, reason) ==
    /\ workers' = Finish(w, "security_block", reason)
    /\ user_withdrawal_states' =
          [user_withdrawal_states EXCEPT ![workers[w].user] = NoState]
    /\ portfolio' = [portfolio EXCEPT ![workers[w].user][workers[w].token].amount =
                        @ - workers[w].amount]
    /\ UNCHANGED debits

\* a handler that reports the rejection and keeps the conversation state
AddrRejected_KeepsState(w, reason) ==
    /\ workers' = Finish(w, "security_block", reason)
    /\ UNCHANGED <<user_withdrawal_states, portfolio, debits>>

\* the reply after a rejection by the gate, and del user_withdrawal_states[user_id]
AddrRejected(w, reason) ==
    /\ workers' = Finish(w, "security_block", reason)
    /\ user_withdrawal_states' =
          [user_withdrawal_states EXCEPT ![workers[w].user] = NoState]
    /\ UNCHANGED <<portfolio, debits>>

\* withdrawal_result = await db.atomic_create_verified_withdrawal(...)
AddrGate(w) ==
    /\ workers[w].pc = "addr_gate"
    /\ LET u == workers[w].user
           r == atomic_create_verified_withdrawal(u, workers[w].token,
                                                  workers[w].amount, workers[w].text)
       IN  /\ withdrawals' = r.withdrawals
           /\ IF ~r.success
              THEN AddrRejected(w, r.reason)
              ELSE /\ workers' = [workers EXCEPT ![w].pc = "addr_debit",
                                                 ![w].wid = r.withdrawal_id,
                                                 ![w].res = r.reason]
                   /\ UNCHANGED <<user_withdrawal_states, portfolio, debits>>
    /\ UNCHANGED <<buckets, ledger, tasks, nEvents, call, deposit_vars>>

\* db.update_portfolio(user_id, token, amount, price): amount is added
update_portfolio(pf, u, token, amount) ==
    [pf EXCEPT ![u][token] = [has |-> TRUE, amount |-> @.amount + amount]]

\* await db.update_portfolio(user_id, token, -token_amount, 0), the approval
\* reply and del user_withdrawal_states[user_id]; the except branch when the
\* update or the del raises
AddrDebit(w) ==
    /\ workers[w].pc = "addr_debit"
    /\ LET u == workers[w].user IN
       \E stored \in BOOLEAN :
          /\ IF stored
             THEN /\ portfolio' = update_portfolio(portfolio, u, workers[w].token,
                                                   0 - workers[w].amount)
                  /\ debits' = Append(debits,
                        [user |-> u, token |-> workers[w].token,
                         amount |-> workers[w].amount, wid |-> workers[w].wid,
                         res |-> workers[w].res])
                  /\ workers' = Finish(w, "approved", workers[w].res)
             ELSE /\ UNCHANGED <<portfolio, debits>>
                  /\ workers' = Finish(w, "withdraw_error", workers[w].res)
          /\ user_withdrawal_states' = [user_withdrawal_states EXCEPT ![u] = NoState]
    /\ UNCHANGED <<buckets, ledger, withdrawals, tasks, nEvents, call, deposit_vars>>

\* ----------------------------------------- callback check_verification_

\* variant: a status check without the test of the owner
CheckVerification_AnyCaller(w, u, p) ==
    /\ nEvents < MaxEvents
    /\ nEvents' = nEvents + 1
    /\ UNCHANGED <<call, deposit_vars>>
    /\ workers[w].pc = "idle"
    /\ IF p \notin PaymentIds
       THEN Reply(w, u, "payment_not_found")
       ELSE Reply(w, u, "status_" \o ledger[p].status)
    /\ UNCHANGED <<buckets, user_withdrawal_states, ledger, withdrawals,
                   portfolio, tasks, debits>>

\* variant: a status check that refreshes the confirmation count itself
CheckVerification_Advances(w, u, p) ==
    /\ nEvents < MaxEvents
    /\ nEvents' = nEvents + 1
    /\ UNCHANGED <<call, deposit_vars>>
    /\ workers[w].pc = "idle"
    /\ IF p \notin PaymentIds
       THEN Reply(w, u, "payment_not_found") /\ UNCHANGED ledger
       ELSE IF ledger[p].user # u
       THEN Reply(w, u, "access_denied") /\ UNCHANGED ledger
       ELSE /\ Reply(w, u, "status_" \o ledger[p].status)
            /\ ledger' = [ledger EXCEPT ![p].confirmations = @ + 1]
    /\ UNCHANGED <<buckets, user_withdrawal_states, withdrawals,
                   portfolio, tasks, debits>>

\* callback check_verification_<payment_id>: reads the payment, answers
\* "not found" or "access denied", or sends the status of the payment
CheckVerification(w, u, p) ==
    /\ nEvents < MaxEvents
    /\ nEvents' = nEvents + 1
    /\ UNCHANGED <<call, deposit_vars>>
    /\ workers[w].pc = "idle"
    /\ IF p \notin PaymentIds
       THEN Reply(w, u, "payment_not_found")
       ELSE IF ledger[p].user # u
       THEN Reply(w, u, "access_denied")
       ELSE Reply(w, u, "status_" \o ledger[p].status)
    /\ UNCHANGED <<buckets, user_withdrawal_states, ledger, withdrawals,
                   portfolio, tasks, debits>>

\* ------------------------------------------------ deposit callbacks

\* callback confirm_deposit_<token>_<amount>: stores the pending deposit
\* under a new id
ConfirmDeposit(u, t) ==
    /\ nEvents < MaxEvents
    /\ nEvents' = nEvents + 1
    /\ Cardinality(Requests) < MaxDeposits
    /\ LET deposit_id == Cardinality(Requests) + 1 IN
       /\ pending_deposits' =
             [pending_deposits EXCEPT ![deposit_id] =
                 [user |-> u, token |-> t, amount |-> DepositAmount]]
       /\ deposit_log' = Append(deposit_log,
             [kind |-> "request", id |-> deposit_id, by |-> u])
    /\ UNCHANGED <<buckets, user_withdrawal_states, ledger, withdrawals, portfolio,
                   tasks, workers, debits, call>>

\* callback approve_deposit_<id>, up to asyncio.run(db.update_portfolio):
\* the admin check, the lookup in pending_deposits, the read of deposit_data.
\* res holds the target user of the deposit.
ApproveDeposit(w, u, d) ==
    /\ nEvents < MaxEvents
    /\ nEvents' = nEvents + 1
    /\ workers[w].pc = "idle"
    /\ IF ~is_admin(u)
       THEN Reply(w, u, "access_denied")
       ELSE IF pending_deposits[d] = NoDeposit
       THEN Reply(w, u, "deposit_not_found")
       ELSE workers' = [workers EXCEPT ![w] =
               [IdleWorker(u, "none", pending_deposits[d].user) EXCEPT
                   !.pc = "approve_credit", !.wid = d,
                   !.token = pending_deposits[d].token,
                   !.amount = pending_deposits[d].amount]]
    /\ UNCHANGED <<buckets, user_withdrawal_states, ledger, withdrawals, portfolio,
                   tasks, debits, call, deposit_vars>>

\* asyncio.run(db.update_portfolio(target_user_id, token_symbol, token_amount,
\* current_price)); an exception leads to the except branch
ApproveCredit(w) ==
    /\ workers[w].pc = "approve_credit"
    /\ \E raised \in BOOLEAN :
          IF raised
          THEN /\ workers' = Finish(w, "approval_error", "none")
               /\ UNCHANGED <<portfolio, deposit_log>>
          ELSE /\ portfolio' = update_portfolio(portfolio, workers[w].res,
                                                workers[w].token, workers[w].amount)
               /\ deposit_log' = Append(deposit_log,
                     [kind |-> "credit", id |-> workers[w].wid,
                      by |-> workers[w].user])
               /\ workers' = [workers EXCEPT ![w].pc = "approve_delete"]
    /\ UNCHANGED <<buckets, user_withdrawal_states, ledger, withdrawals, tasks,
                   debits, nEvents, call, pending_deposits>>

\* asyncio.run(db.add_trade_history(...)); del pending_deposits[deposit_id];
\* an exception of either (KeyError when the id is gone) leads to the except
\* branch
ApproveDelete(w) ==
    /\ workers[w].pc = "approve_delete"
    /\ \E raised \in BOOLEAN :
          IF raised \/ pending_deposits[workers[w].wid] = NoDeposit
          THEN /\ workers' = Finish(w, "approval_error", "none")
               /\ UNCHANGED pending_deposits
          ELSE /\ pending_deposits' =
                     [pending_deposits EXCEPT ![workers[w].wid] = NoDeposit]
               /\ workers' = Finish(w, "deposit_approved", "none")
    /\ UNCHANGED <<buckets, user_withdrawal_states, ledger, withdrawals, portfolio,
                   tasks, debits, nEvents, call, deposit_log>>

\* callback reject_deposit_<id>
RejectDeposit(w, u, d) ==
    /\ nEvents < MaxEvents
    /\ nEvents' = nEvents + 1
    /\ workers[w].pc = "idle"
    /\ IF ~is_admin(u)
       THEN /\ Reply(w, u, "access_denied")
            /\ UNCHANGED deposit_vars
       ELSE IF pending_deposits[d] = NoDeposit
       THEN /\ Reply(w, u, "deposit_not_found")
            /\ UNCHANGED deposit_vars
       ELSE /\ pending_deposits' = [pending_deposits EXCEPT ![d] = NoDeposit]
            /\ deposit_log' = Append(deposit_log,
                  [kind |-> "reject", id |-> d, by |-> u])
            /\ Reply(w, u, "deposit_rejected")
    /\ UNCHANGED <<buckets, user_withdrawal_states, ledger, withdrawals, portfolio,
                   tasks, debits, call>>

\* ------------------------------------ simulate_blockchain_confirmations

\* await asyncio.sleep(wait_time); db.update_fee_payment_confirmations
TaskWake(p) ==
    /\ tasks[p].pc = "sleep"
    /\ ledger' = update_fee_payment_confirmations(ledger, p, tasks[p].conf)
    /\ tasks' = [tasks EXCEPT ![p].pc = "notify"]
    /\ UNCHANGED <<buckets, user_withdrawal_states, withdrawals, portfolio, workers,
                   debits, nEvents, call, deposit_vars>>

\* a loop that takes the payment for complete one confirmation early
TaskNotify_OffByOne(p) ==
    /\ tasks[p].pc = "notify"
    /\ LET complete == tasks[p].conf >= tasks[p].req - 1 IN
       IF InFlow(ledger[p].user) /\ complete
       THEN /\ ledger' = mark_fee_payment_verified(ledger, p)
            /\ tasks' = [tasks EXCEPT ![p].pc = "setstep"]
       ELSE /\ UNCHANGED ledger
            /\ tasks' = IF complete
                        THEN [tasks EXCEPT ![p].pc = "done"]
                        ELSE [tasks EXCEPT ![p].pc = "sleep", ![p].conf = @ + 1]
    /\ UNCHANGED <<buckets, user_withdrawal_states, withdrawals, portfolio, workers,
                   debits, nEvents, call, deposit_vars>>

\* the progress update: "if user_id in user_withdrawal_states" up to the
\* call of db.mark_fee_payment_verified or to the next sleep
TaskNotify(p) ==
    /\ tasks[p].pc = "notify"
    /\ LET complete == tasks[p].conf >= tasks[p].req IN
       IF InFlow(ledger[p].user) /\ complete
       THEN /\ ledger' = mark_fee_payment_verified(ledger, p)
            /\ tasks' = [tasks EXCEPT ![p].pc = "setstep"]
       ELSE /\ UNCHANGED ledger
            /\ IF complete
               THEN tasks' = [tasks EXCEPT ![p].pc = "done"]
               ELSE IF ~InFlow(ledger[p].user)
               THEN tasks' = [tasks EXCEPT ![p].pc = "sleep", ![p].conf = @ + 1]
               ELSE \* try: bot.send_message except Exception: logger.error
                    \E delivered \in BOOLEAN :
                       tasks' = [tasks EXCEPT
                                   ![p].pc = "sleep", ![p].conf = @ + 1,
                                   ![p].undelivered =
                                       IF delivered THEN @ ELSE @ + 1]
    /\ UNCHANGED <<buckets, user_withdrawal_states, withdrawals, portfolio, workers,
                   debits, nEvents, call, deposit_vars>>

\* a loop in which a failed bot.send_message reaches the outer except branch
TaskSetStep_SendAborts(p) ==
    /\ tasks[p].pc = "setstep"
    /\ IF InFlow(ledger[p].user)
       THEN /\ user_withdrawal_states' =
                 [user_withdrawal_states EXCEPT ![ledger[p].user].step = "verified"]
            /\ \E delivered \in BOOLEAN :
                  tasks' = [tasks EXCEPT
                              ![p].pc = IF delivered THEN "done" ELSE "reject",
                              ![p].undelivered = IF delivered THEN @ ELSE @ + 1]
       ELSE /\ UNCHANGED user_withdrawal_states
            /\ tasks' = [tasks EXCEPT ![p].pc = "reject"]
    /\ UNCHANGED <<buckets, ledger, withdrawals, portfolio, workers, debits, nEvents, call, deposit_vars>>

\* user_withdrawal_states[user_id]['step'] = 'verified' and the message with
\* the "Proceed to Withdrawal" button; KeyError leads to the except branch
TaskSetStep(p) ==
    /\ tasks[p].pc = "setstep"
    /\ IF InFlow(ledger[p].user)
       THEN /\ user_withdrawal_states' =
                 [user_withdrawal_states EXCEPT ![ledger[p].user].step = "verified"]
            /\ \E delivered \in BOOLEAN :
                  tasks' = [tasks EXCEPT
                              ![p].pc = "done",
                              ![p].undelivered = IF delivered THEN @ ELSE @ + 1]
       ELSE /\ UNCHANGED user_withdrawal_states
            /\ tasks' = [tasks EXCEPT ![p].pc = "reject"]
    /\ UNCHANGED <<buckets, ledger, withdrawals, portfolio, workers, debits, nEvents, call, deposit_vars>>

\* except Exception: await db.mark_fee_payment_rejected(payment_id)
TaskReject(p) ==
    /\ tasks[p].pc = "reject"
    /\ ledger' = mark_fee_payment_rejected(ledger, p)
    /\ tasks' = [tasks EXCEPT ![p].pc = "failed"]
    /\ UNCHANGED <<buckets, user_withdrawal_states, withdrawals, portfolio, workers,
                   debits, nEvents, call, deposit_vars>>

Inbound ==
    \/ \E u \in Users, t \in Tokens : FeePaid(u, t)
    \/ \E u \in Users, t \in Tokens : EnterTxid(u, t)
    \/ \E u \in Users, t \in Tokens : FeeVerified(u, t)
    \/ \E u \in Users, t \in Tokens : EnterAddress(u, t)
    \/ \E u \in Users, t \in Tokens : Sell(u, t)
    \/ \E w \in Workers, u \in Users, text \in Texts : HandleTextInput(w, u, text)
    \/ \E w \in Workers, u \in Users : WithdrawTypeCrypto(w, u)

RouterCallbacks ==
    \/ \E w \in Workers, u \in Users : MenuCopyTrading(w, u)
    \/ \E u \in Users : CopySpecificTrader(u)
    \/ \E u \in Users, wallet_type \in WalletTypes : ConnectWallet(u, wallet_type)
    \/ \E u \in Users, action \in AdminActions : AdminCallback(u, action)
    \/ \E u \in Users, currency \in Currencies : AdminCurr(u, currency)

Handlers ==
    \/ \E w \in Workers : TxidLookup(w)
    \/ \E w \in Workers : TxidCreate(w)
    \/ \E w \in Workers : AddrBegin(w)
    \/ \E w \in Workers : AddrGate(w)
    \/ \E w \in Workers : AddrDebit(w)

Next ==
    \/ Inbound
    \/ Handlers
    \/ \E w \in Workers : TxidFinish(w)

Spec == Init /\ [][Next]_vars

NextLive ==
    \/ Inbound
    \/ Handlers
    \/ \E w \in Workers : TxidFinishLive(w)
    \/ \E p \in PaymentIds : TaskWake(p)
    \/ \E p \in PaymentIds : TaskNotify(p)
    \/ \E p \in PaymentIds : TaskSetStep(p)
    \/ \E p \in PaymentIds : TaskReject(p)
    \/ \E w \in Workers, u \in Users, p \in 1..(Len(ledger) + 1) :
          CheckVerification(w, u, p)

SpecLive == Init /\ [][NextLive]_vars

NextRouter ==
    \/ RouterCallbacks
    \/ \E u \in Users, t \in Tokens : FeePaid(u, t)
    \/ \E u \in Users, t \in Tokens : EnterTxid(u, t)
    \/ \E w \in Workers, u \in Users, text \in Texts : HandleTextInput(w, u, text)
    \/ Handlers
    \/ \E w \in Workers : TxidFinish(w)

SpecRouter == Init /\ [][NextRouter]_vars

\* withdrawal_fee = token_amount * 0.10; net_amount = token_amount - withdrawal_fee
CallWithdrawalFee(amount) ==
    /\ call = NoCall
    /\ call' = [NoCall EXCEPT !.fn = "withdrawal_fee",
                              !.amount = amount,
                              !.num = WithdrawalFee(amount),
                              !.net = amount - WithdrawalFee(amount)]
    /\ UNCHANGED <<user_withdrawal_states, ledger, withdrawals, portfolio, tasks,
                   workers, debits, nEvents, users_inputting_trader_id,
                   users_connecting_wallet, admin_balance_operations,
                   admin_ban_operations, user_states, admin_calls,
                   deposit_vars>>

\* ------------------------------------------------ message dispatch

\* the @bot.message_handler registrations in the order of the source: a
\* command filter matches the commands it lists, func=lambda message: True
\* matches every text message
MessageHandlers ==
    <<[name |-> "start_command", commands |-> {"start"}, any |-> FALSE],
      [name |-> "buy_command", commands |-> {"buy"}, any |-> FALSE],
      [name |-> "portfolio_command", commands |-> {"portfolio"}, any |-> FALSE],
      [name |-> "prices_command", commands |-> {"prices"}, any |-> FALSE],
      [name |-> "sell_command", commands |-> {"sell"}, any |-> FALSE],
      [name |-> "wallet_command", commands |-> {"wallet"}, any |-> FALSE],
      [name |-> "admin_command", commands |-> {"admin"}, any |-> FALSE],
      [name |-> "myid_command", commands |-> {"myid"}, any |-> FALSE],
      [name |-> "handle_text_input", commands |-> {}, any |-> TRUE],
      [name |-> "deposits_command", commands |-> {"deposits"}, any |-> FALSE],
      [name |-> "withdraw_command", commands |-> {"withdraw"}, any |-> FALSE]>>

\* the command of a text message; "none" for a text that is not a command
MessageCommands ==
    {"start", "buy", "portfolio", "prices", "sell", "wallet", "admin", "myid",
     "deposits", "withdraw", "unknown", "none"}

Matches(h, command) == h.any \/ command \in h.commands

\* the handlers are tried in registration order and the first match wins
Dispatch(command) ==
    LET S == {i \in 1..Len(MessageHandlers) : Matches(MessageHandlers[i], command)}
    IN  IF S = {} THEN "none"
        ELSE MessageHandlers[CHOOSE i \in S : \A j \in S : i <= j].name

\* a text message with the given command reaches the bot
CallDispatch(command) ==
    /\ call = NoCall
    /\ call' = [NoCall EXCEPT !.fn = "dispatch",
                              !.token = command,
                              !.handler = Dispatch(command)]
    /\ UNCHANGED <<user_withdrawal_states, ledger, withdrawals, portfolio, tasks,
                   workers, debits, nEvents, users_inputting_trader_id,
                   users_connecting_wallet, admin_balance_operations,
                   admin_ban_operations, user_states, admin_calls,
                   deposit_vars>>

NextPure ==
    \/ \E body \in PureTexts, pad \in 0..MaxPad, token \in PureTokens :
          CallValidateTxid(body, pad, token)
    \/ \E token \in PureTokens : CallConfirmationRequirement(token)
    \/ \E amount \in 0..MaxAmount : CallWithdrawalFee(amount)
    \/ \E command \in MessageCommands : CallDispatch(command)

SpecPure == Init /\ [][NextPure]_vars

NextDeposit ==
    \/ \E u \in Users, t \in Tokens : ConfirmDeposit(u, t)
    \/ \E w \in Workers, u \in Users, d \in DepositIds : ApproveDeposit(w, u, d)
    \/ \E w \in Workers : ApproveCredit(w)
    \/ \E w \in Workers : ApproveDelete(w)
    \/ \E w \in Workers, u \in Users, d \in DepositIds : RejectDeposit(w, u, d)

SpecDeposit == Init /\ [][NextDeposit]_vars

NextFee ==
    \/ \E u \in Users, t \in FeeTokens : FeePaid(u, t)
    \/ \E u \in Users, t \in FeeTokens : EnterTxid(u, t)
    \/ \E w \in Workers, u \in Users, text \in FeeTexts : HandleTextInput(w, u, text)
    \/ \E w \in Workers : TxidLookup(w)
    \/ \E w \in Workers : TxidCreate(w)
    \/ \E w \in Workers : TxidFinishLive(w)
    \/ \E w \in Workers : AddrBegin(w)
    \/ \E w \in Workers : AddrGate(w)
    \/ \E p \in PaymentIds : TaskWake(p)
    \/ \E p \in PaymentIds : TaskNotify(p)
    \/ \E p \in PaymentIds : TaskSetStep(p)
    \/ \E p \in PaymentIds : TaskReject(p)

SpecFee == Init /\ [][NextFee]_vars

\* ================================================================ claims

WithdrawalIds == 1..Len(withdrawals)

DebitIds == 1..Len(debits)

\* worker w receives the result of the gate in this step
GateStep(w) == workers[w].pc = "addr_gate" /\ workers'[w].pc # "addr_gate"

\* C1: no two withdrawals reference the same fee payment, and every
\* withdrawal references a fee payment whose status is verified.
C1_AtMostOnceConsumption ==
    /\ \A i, j \in WithdrawalIds :
          i # j => withdrawals[i].fee_payment_id # withdrawals[j].fee_payment_id
    /\ \A i \in WithdrawalIds :
          /\ withdrawals[i].fee_payment_id \in PaymentIds
          /\ ledger[withdrawals[i].fee_payment_id].status = "verified"
          /\ ledger[withdrawals[i].fee_payment_id].user = withdrawals[i].user

\* two address messages of one user for one token went through the gate:
\* one consumed the fee payment, the other was turned away
C1_Witness ==
    \E w1, w2 \in Workers :
       /\ w1 # w2
       /\ workers[w1].pc = "idle" /\ workers[w1].res = "ok"
       /\ workers[w2].pc = "idle" /\ workers[w2].res = "no_verified_fee_payment"
       /\ workers[w1].user = workers[w2].user
       /\ workers[w1].token = workers[w2].token
       /\ Len(withdrawals) = 1

\* C2: the withdrawal debit and the approval reply happen only in a handler
\* whose call of the gate succeeded, for the withdrawal the gate created for
\* that user, token and amount.
C2_GateNotBypassed ==
    /\ \A k \in DebitIds :
          /\ debits[k].res = "ok"
          /\ debits[k].wid \in WithdrawalIds
          /\ withdrawals[debits[k].wid].user = debits[k].user
          /\ withdrawals[debits[k].wid].token = debits[k].token
          /\ withdrawals[debits[k].wid].amount = debits[k].amount
    /\ \A w \in Workers :
          workers[w].pc = "addr_debit" \/ workers[w].out = "approved"
             => workers[w].res = "ok"

\* a withdrawal was approved and debited after an earlier address message of
\* the same run was turned away by the gate
C2_Witness ==
    /\ Len(debits) > 0
    /\ \E w1, w2 \in Workers :
          /\ workers[w1].out = "approved"
          /\ workers[w2].out = "security_block"

\* C3: every withdrawal record has its portfolio debit and every withdrawal
\* debit has its withdrawal record.
C3_AtomicUnit ==
    /\ \A i \in WithdrawalIds : \E k \in DebitIds : debits[k].wid = i
    /\ \A k \in DebitIds : debits[k].wid \in WithdrawalIds

\* C4: a submission of a TXID that a fee payment already carries is answered
\* with the replay error and creates no fee payment; no two fee payments
\* carry the same TXID.
C4_ReplayRejected ==
    /\ \A p, q \in PaymentIds : p # q => ledger[p].txid # ledger[q].txid
    /\ \A w \in Workers : workers[w].out # "system_error"

\* C5: the accrual task started for an accepted TXID survives the return of
\* the handler that started it.
C5_TaskSurvives ==
    \A p \in PaymentIds : tasks[p].pc # "cancelled"

C9_NoVerifiedFeePayment ==
    /\ [](\A w \in Workers :
            workers[w].res = "no_verified_fee_payment"
               => workers[w].pc = "idle" /\ workers[w].out = "security_block")
    /\ [][\A w \in Workers :
            (/\ GateStep(w)
             /\ VerifiedUnconsumed(workers[w].user,
                                   get_fee_payment_token(workers[w].token)) = {})
            => /\ workers'[w].res = "no_verified_fee_payment"
               /\ withdrawals' = withdrawals
               /\ portfolio' = portfolio
               /\ debits' = debits]_vars

\* a user was turned away while another user held a verified, unconsumed
\* fee payment for the same token
C9_Witness ==
    \E w \in Workers, p \in PaymentIds :
       /\ workers[w].pc = "idle"
       /\ workers[w].res = "no_verified_fee_payment"
       /\ ledger[p].user # workers[w].user
       /\ ledger[p].token = get_fee_payment_token(workers[w].token)
       /\ ledger[p].status = "verified"
       /\ ~Consumed(p)

\* C10: a call of the gate with an amount above the current holding, for a
\* user with a verified fee payment, is rejected, creates no withdrawal and
\* debits nothing.
C10_AmountAboveHolding ==
    /\ [](\A w \in Workers :
            workers[w].res = "insufficient_holding"
               => workers[w].pc = "idle" /\ workers[w].out = "security_block")
    /\ [][\A w \in Workers :
            (/\ GateStep(w)
             /\ VerifiedUnconsumed(workers[w].user,
                                   get_fee_payment_token(workers[w].token)) # {}
             /\ workers[w].amount >
                   portfolio[workers[w].user][workers[w].token].amount)
            => /\ workers'[w].res = "insufficient_holding"
               /\ withdrawals' = withdrawals
               /\ portfolio' = portfolio
               /\ debits' = debits]_vars

\* the holding shrank between the read of the amount and the call of the
\* gate, and the gate turned the withdrawal away
C10_Witness ==
    \E w \in Workers :
       /\ workers[w].pc = "idle"
       /\ workers[w].res = "insufficient_holding"
       /\ withdrawals = <<>>

\* ------------------------------------------------------------- router

\* worker w takes a text message of u
TextStep(w, u) == \E text \in Texts : HandleTextInput(w, u, text)

TraderSame == users_inputting_trader_id' = users_inputting_trader_id

WalletSame == users_connecting_wallet' = users_connecting_wallet

BalanceOpSame == admin_balance_operations' = admin_balance_operations

BanOpSame == admin_ban_operations' = admin_ban_operations

WithdrawalSame == user_withdrawal_states' = user_withdrawal_states

SupportSame == user_states' = user_states

TraderReplies == TraderOutcomes

WalletReplies == {"wallet_connected", "wallet_error", "invalid_credentials"}

BalanceReplies ==
    {"invalid_input", "user_not_found", "select_currency", "invalid_amount",
     "balance_updated", "update_failed", "none"}

BanReplies ==
    {"invalid_user_id", "already_banned", "enter_reason", "not_banned",
     "user_unbanned", "unban_failed", "reason_too_short", "user_banned",
     "ban_failed", "none"}

\* C11: handle_text_input checks the buckets in the order trader id, wallet,
\* admin balance, admin ban, withdrawal, support/bug and hands the message to
\* the first one that matches, and to that one only: every other bucket is
\* left as it was; when no bucket matches the generic reply is sent.
C11_FirstMatchOnly ==
    [][\A w \in Workers, u \in Users : TextStep(w, u) =>
          LET hasTrader == u \in users_inputting_trader_id
              hasWallet == users_connecting_wallet[u] # "none"
              hasBalance == admin_balance_operations[u] # NoOperation
              hasBan == admin_ban_operations[u] # NoOperation
              hasSupport == user_states[u] \in {"waiting_for_support_message",
                                                "waiting_for_bug_report"}
              out == workers'[w].out
              pc == workers'[w].pc
          IN  IF hasTrader
              THEN /\ pc = "idle" /\ out \in TraderReplies
                   /\ users_inputting_trader_id' = users_inputting_trader_id \ {u}
                   /\ WalletSame /\ BalanceOpSame /\ BanOpSame
                   /\ WithdrawalSame /\ SupportSame
              ELSE IF hasWallet
              THEN /\ pc = "idle" /\ out \in WalletReplies
                   /\ users_connecting_wallet' =
                         [users_connecting_wallet EXCEPT ![u] = "none"]
                   /\ TraderSame /\ BalanceOpSame /\ BanOpSame
                   /\ WithdrawalSame /\ SupportSame
              ELSE IF hasBalance
              THEN /\ pc = "idle" /\ out \in BalanceReplies
                   /\ TraderSame /\ WalletSame /\ BanOpSame
                   /\ WithdrawalSame /\ SupportSame
              ELSE IF hasBan
              THEN /\ pc = "idle" /\ out \in BanReplies
                   /\ TraderSame /\ WalletSame /\ BalanceOpSame
                   /\ WithdrawalSame /\ SupportSame
              ELSE IF InFlow(u)
              THEN /\ pc = IF user_withdrawal_states[u].step = "entering_txid"
                           THEN "txid_lookup" ELSE "addr_begin"
                   /\ TraderSame /\ WalletSame /\ BalanceOpSame /\ BanOpSame
                   /\ SupportSame
              ELSE IF hasSupport
              THEN /\ pc = "idle" /\ out \in {"support_sent", "bug_report_sent"}
                   /\ TraderSame /\ WalletSame /\ BalanceOpSame /\ BanOpSame
                   /\ WithdrawalSame
              ELSE /\ pc = "idle" /\ out = "generic"
                   /\ TraderSame /\ WalletSame /\ BalanceOpSame /\ BanOpSame
                   /\ WithdrawalSame /\ SupportSame]_vars

\* a message went to the trader lookup while the wallet bucket and the
\* withdrawal bucket of the same user were filled, and both still are
C11_Witness ==
    \E w \in Workers :
       /\ workers[w].pc = "idle"
       /\ workers[w].out \in TraderReplies
       /\ workers[w].user \notin users_inputting_trader_id
       /\ users_connecting_wallet[workers[w].user] # "none"
       /\ InFlow(workers[w].user)

\* C12: db.admin_add_balance, db.admin_subtract_balance, db.ban_user and
\* db.unban_user are called only for a sender who is the admin; a text
\* message of any other user calls none of them and leaves that user without
\* an admin balance or ban operation.
C12_AdminOnly ==
    /\ [](\A c \in admin_calls : c.sender = ADMIN_USER_ID)
    /\ [][\A w \in Workers, u \in Users :
            (TextStep(w, u) /\ u # ADMIN_USER_ID) =>
               /\ admin_calls' = admin_calls
               /\ admin_balance_operations'[u] = NoOperation
               /\ admin_ban_operations'[u] = NoOperation]_vars

\* the admin has carried a balance operation through to the database
C12_Witness ==
    /\ \E c \in admin_calls : c.fn \in {"admin_add_balance", "admin_subtract_balance"}
    /\ \E w \in Workers :
          /\ workers[w].user = ADMIN_USER_ID
          /\ workers[w].out \in {"balance_updated", "update_failed"}

\* C14: a pending expectation never survives a turn silently: a text message
\* that finds an expectation of its sender in the trader-id, wallet, admin
\* balance or admin ban bucket clears it, advances it or is answered with a
\* reply, and the Back / Cancel button of the trader and wallet prompts
\* (menu_copy_trading) leaves the user without either expectation.
C14_NoSilentExpectation ==
    [][\A w \in Workers, u \in Users :
          /\ (/\ TextStep(w, u)
              /\ \/ u \in users_inputting_trader_id
                 \/ users_connecting_wallet[u] # "none"
                 \/ admin_balance_operations[u] # NoOperation
                 \/ admin_ban_operations[u] # NoOperation)
             => \/ workers'[w].out # "none"
                \/ ~(TraderSame /\ WalletSame /\ BalanceOpSame /\ BanOpSame)
          /\ MenuCopyTrading(w, u)
             => /\ u \notin users_inputting_trader_id'
                /\ users_connecting_wallet'[u] = "none"]_vars

\* ------------------------------------------- withdrawal conversation state

\* C15: after the Cancel button of the withdrawal flow (callback
\* withdraw_type_CRYPTO) the user has no entry in user_withdrawal_states.
C15_CancelClears ==
    [][\A w \in Workers, u \in Users :
          WithdrawTypeCrypto(w, u) => user_withdrawal_states'[u] = NoState]_vars

\* worker w returns from process_withdrawal_address_input
AddrReturn(w) ==
    /\ workers[w].pc \in {"addr_begin", "addr_gate", "addr_debit"}
    /\ workers'[w].pc = "idle"

C17_ValidationKeepsState ==
    [][\A w \in Workers :
          (/\ workers[w].pc \in {"txid_lookup", "addr_begin"}
           /\ workers'[w].pc = "idle"
           /\ workers'[w].out \in {"invalid_txid", "invalid_address"})
          => /\ user_withdrawal_states' = user_withdrawal_states
             /\ ledger' = ledger
             /\ withdrawals' = withdrawals
             /\ portfolio' = portfolio]_vars

\* one user was told of a malformed TXID and is still entering the TXID,
\* after having been told of a malformed address
C17_Witness ==
    \E w1 \in Workers, w2 \in Workers :
       /\ workers[w1].out = "invalid_txid"
       /\ workers[w2].out = "invalid_address"
       /\ workers[w1].user = workers[w2].user
       /\ user_withdrawal_states[workers[w1].user].step = "entering_txid"

\* worker w is in process_txid_input with a well-formed TXID that a fee
\* payment already carries
ReplayFound(w) ==
    /\ workers[w].pc = "txid_lookup"
    /\ InFlow(workers[w].user)
    /\ user_withdrawal_states[workers[w].user].step = "entering_txid"
    /\ user_withdrawal_states[workers[w].user].ctx
    /\ validate_txid(workers[w].text, user_withdrawal_states[workers[w].user].token)
    /\ get_fee_payment_by_txid(workers[w].text) # {}

\* C18: a TXID that a fee payment already carries gets the one replay reply
\* and leaves the conversation state as it was, whether that payment belongs
\* to the submitter or to another user; the reply is not the one for a
\* malformed TXID.
C18_ReplayHidesOwner ==
    [][\A w \in Workers :
          (ReplayFound(w) /\ workers'[w] # workers[w]) =>
             /\ workers'[w].pc = "idle"
             /\ workers'[w].out = "replay"
             /\ workers'[w].out # "invalid_txid"
             /\ user_withdrawal_states' = user_withdrawal_states
             /\ ledger' = ledger]_vars

\* a submitter was told of a replay of a TXID that only another user's
\* payment carries
C18_Witness ==
    \E w \in Workers :
       /\ workers[w].out = "replay"
       /\ ledger # <<>>
       /\ \A p \in PaymentIds : ledger[p].user # workers[w].user

\* ---------------------------------------------------------- accrual task

\* C19: no fee payment whose accrual task has ended (loop finished, failure
\* handled, or task torn down) is left in status pending: a failure makes the
\* task call mark_rejected.
C19_EndedTaskNotPending ==
    \A p \in PaymentIds :
       tasks[p].pc \in {"done", "failed", "cancelled"} =>
          ledger[p].status # "pending"

\* the task of payment p makes a step in which bot.send_message fails
SendFails(p) ==
    /\ tasks[p].pc \in {"notify", "setstep"}
    /\ tasks'[p].undelivered = tasks[p].undelivered + 1

TaskStep(p) ==
    /\ tasks[p].pc \in {"sleep", "notify", "setstep", "reject"}
    /\ tasks'[p] # tasks[p]

C22_FeeAssetConsistency ==
    \A p \in PaymentIds :
       ledger[p].token = get_fee_payment_token(ledger[p].withdrawal_token)

\* --------------------------------------------------------- pure functions

HexLike == {"hex", "both", "digits"}

Base58Like == {"b58", "both"}

\* C23: validate_txid accepts exactly: 64 hex characters for BTC and ADA; 0x
\* followed by 64 hex characters (66 in all) for ETH, USDT, BNB, MATIC and
\* LINK; 88 base58 characters for SOL, all after the surrounding whitespace
\* is trimmed.  Anything else is rejected: the empty text, an unknown asset,
\* a wrong length, a wrong prefix, a character outside the alphabet.
C23_ValidateTxidStructural ==
    call.fn = "validate_txid" =>
       (call.ok <=>
          \/ /\ call.token \in {"BTC", "ADA"}
             /\ call.text.len = 64 /\ ~call.text.ox /\ call.text.cs \in HexLike
          \/ /\ call.token \in {"ETH", "USDT", "BNB", "MATIC", "LINK"}
             /\ call.text.len = 66 /\ call.text.ox /\ call.text.cs \in HexLike
          \/ /\ call.token \in {"SOL"}
             /\ call.text.len = 88 /\ ~call.text.ox /\ call.text.cs \in Base58Like)

\* a padded 0x-prefixed TXID was accepted for an asset of the ETH family
C23_Witness ==
    /\ call.fn = "validate_txid"
    /\ call.ok
    /\ call.token = "LINK"
    /\ call.pad > 0

\* C24: get_token_confirmation_requirement returns BTC 2, ETH 6, USDT 6,
\* BNB 3, MATIC 3, SOL 1, ADA 5, LINK 6 and 3 for an unknown asset, hence at
\* least 1; an accrual task that has ended its loop has counted at least one
\* confirmation.
C24_ConfirmationTable ==
    call.fn = "get_token_confirmation_requirement" =>
       /\ call.num = (CASE call.token = "BTC" -> 2
                        [] call.token \in {"ETH", "USDT", "LINK"} -> 6
                        [] call.token \in {"BNB", "MATIC"} -> 3
                        [] call.token = "SOL" -> 1
                        [] call.token = "ADA" -> 5
                        [] OTHER -> 3)
       /\ call.num >= 1

\* the consequence for the accrual loop (6085-6095): a task that has left the
\* loop has counted, and written to the ledger, at least one confirmation
AccrualCountsAtLeastOne ==
    \A p \in PaymentIds :
       tasks[p].pc \in {"setstep", "done"} =>
          /\ tasks[p].req >= 1
          /\ tasks[p].conf >= 1
          /\ ledger[p].confirmations >= 1

\* the default was returned for an asset that the table does not know
C24_Witness ==
    /\ call.fn = "get_token_confirmation_requirement"
    /\ call.token = "DOGE"
    /\ call.num = DefaultConfirmations

\* ------------------------------------------------------ fire and forget

\* process_txid_input of worker w returns after a successful submission
TxidReturns(w) ==
    /\ workers[w].pc = "txid_finish"
    /\ workers'[w].pc = "idle"
    /\ workers'[w].out = "verifying"

\* some accrual task is suspended in asyncio.sleep
SomeTaskSleeps == \E p \in PaymentIds : tasks[p].pc = "sleep"

PaymentSame(p) ==
    /\ ledger'[p].confirmations = ledger[p].confirmations
    /\ ledger'[p].status = ledger[p].status

C27_RestartOverwrites ==
    [][\A u \in Users :
          /\ user_withdrawal_states'[u] # user_withdrawal_states[u]
          /\ user_withdrawal_states'[u].step = "awaiting_txid"
          => LET st == user_withdrawal_states'[u] IN
             /\ st.wamount = portfolio[u][st.token].amount
             /\ st.fee = WithdrawalFee(st.wamount)
             /\ st.payment_id = 0
             /\ st.txid = NoTx
             /\ ~st.fee_verified
             /\ st.fee_payment_id = 0]_vars

\* the user submitted a TXID in this session and then restarted the flow
C27_Witness ==
    \E u \in Users, p \in PaymentIds :
       /\ ledger[p].user = u
       /\ tasks[p].pc # "none"
       /\ user_withdrawal_states[u].step = "awaiting_txid"
       /\ user_withdrawal_states[u].payment_id = 0
       /\ user_withdrawal_states[u].token # ledger[p].token

\* ------------------------------------------------------------ fee rule

\* fee is 10% of gross to the precision of one unit, and net is the rest
FeeShare(gross, fee, net) ==
    /\ 100 * fee <= FeeRatePct * gross
    /\ FeeRatePct * gross < 100 * (fee + 1)
    /\ net = gross - fee
    /\ fee + net = gross

FeeRule(gross, fee, net) ==
    /\ FeeShare(gross, fee, net)
    /\ 0 <= fee
    /\ fee <= gross

FeeRuleAtBothSites ==
    /\ \A u \in Users :
          InFlow(u) /\ user_withdrawal_states[u].step = "awaiting_txid" =>
             FeeShare(user_withdrawal_states[u].wamount,
                      user_withdrawal_states[u].fee,
                      user_withdrawal_states[u].wamount - user_withdrawal_states[u].fee)
    /\ \A i \in 1..Len(withdrawals) :
          FeeRule(withdrawals[i].amount, withdrawals[i].fee_amount,
                  withdrawals[i].net_amount)

C29_SubStepRouting ==
    [][/\ \A w \in Workers, u \in Users :
            TextStep(w, u) /\ Bucket(u) = "withdrawal" =>
               /\ workers'[w].pc \in {"txid_lookup", "addr_begin"}
               /\ workers'[w].user = u
               /\ workers'[w].pc = "txid_lookup"
                     <=> user_withdrawal_states[u].step = "entering_txid"
       /\ \A w \in Workers :
            workers[w].pc = "addr_begin" /\ workers'[w].pc \notin {"addr_begin", "idle"}
               => workers'[w].pc = "addr_gate"]_vars

\* a text sent after the verification has reached the gate as an address
C29_Witness ==
    \E w \in Workers :
       /\ workers[w].pc = "addr_gate"
       /\ user_withdrawal_states[workers[w].user].step = "verified"
       /\ user_withdrawal_states[workers[w].user].payment_id # 0

\* ------------------------------------------------------ one-shot flags

\* C30: the trader-id flag and the wallet-connect entry are one-shot.  The
\* text that finds the flag set is the one handed to the trader lookup and
\* leaves the flag absent, whether the trader is found, is not found or the
\* lookup fails; likewise the wallet entry, for valid and invalid
\* credentials and for a failed connection.  A text is handed to the trader
\* lookup or to the credential check only when the flag or the entry was
\* set, by its button, when the text arrived.
C30_OneShotFlags ==
    [][\A w \in Workers, u \in Users :
          TextStep(w, u) =>
             LET hasTrader == u \in users_inputting_trader_id
                 hasWallet == users_connecting_wallet[u] # "none"
                 out == workers'[w].out
             IN  /\ hasTrader => /\ u \notin users_inputting_trader_id'
                                 /\ out \in TraderReplies
                 /\ ~hasTrader /\ hasWallet =>
                       /\ users_connecting_wallet'[u] = "none"
                       /\ out \in WalletReplies
                 /\ out \in TraderReplies => hasTrader
                 /\ out \in WalletReplies => ~hasTrader /\ hasWallet]_vars

\* the lookup failed, the flag is gone, and a text of the same user got the
\* generic reply
C30_Witness ==
    \E w, v \in Workers :
       /\ workers[w].out = "trader_error"
       /\ workers[w].user \notin users_inputting_trader_id
       /\ workers[v].out = "generic"
       /\ workers[v].user = workers[w].user

\* ------------------------------------------------------ single writer

\* process_txid_input of worker w returns after db.create_fee_payment gave
\* it a payment id
TxidReturnsWithPayment(w) ==
    /\ workers[w].pc = "txid_finish"
    /\ workers'[w].pc = "idle"

\* C31: one accrual task per FeePayment.  A handler that returns after a
\* successful create_fee_payment has started the task of that payment; a
\* task that was started is never started again; the confirmation count of
\* a payment moves only in a step of its own task.
C31_SingleWriter ==
    [][/\ \A w \in Workers :
            TxidReturnsWithPayment(w) => tasks'[workers[w].wid].pc # "none"
       /\ \A p \in PaymentIds :
            /\ tasks[p].pc # "none" /\ tasks'[p] # tasks[p] => TaskStep(p)
            /\ ledger'[p].confirmations # ledger[p].confirmations => TaskStep(p)]_vars

\* the two parts of C31 that hold: no second start, no foreign writer
OneTaskAtMost ==
    [][\A p \in PaymentIds :
          /\ tasks[p].pc # "none" /\ tasks'[p] # tasks[p] => TaskStep(p)
          /\ ledger'[p].confirmations # ledger[p].confirmations => TaskStep(p)]_vars

\* ------------------------------------------------- creation of payments

\* a FeePayment is appended to the ledger in this step
PaymentCreated == Len(ledger') > Len(ledger)

\* the creation is a step of process_txid_input, for a TXID that is well
\* formed for the token of the payment and was not in the ledger
CreatedByTxidInput ==
    PaymentCreated =>
       LET p == Len(ledger') IN
       /\ Len(ledger') = Len(ledger) + 1
       /\ \E w \in Workers :
             /\ workers[w].pc = "txid_create"
             /\ workers[w].user = ledger'[p].user
             /\ workers[w].text = ledger'[p].txid
       /\ validate_txid(ledger'[p].txid, ledger'[p].token)
       /\ get_fee_payment_by_txid(ledger'[p].txid) = {}
       /\ ledger'[p].status = "pending"
       /\ ledger'[p].confirmations = 0

\* the step of the owner is entering_txid when the payment is created
CreatedWhileEntering ==
    PaymentCreated =>
       user_withdrawal_states[ledger'[Len(ledger')].user].step = "entering_txid"

\* the handler that created a payment leaves the state at verifying, with
\* the payment id and the TXID
SuccessLeavesVerifying ==
    \A w \in Workers :
       TxidReturnsWithPayment(w) =>
          LET st == user_withdrawal_states'[workers[w].user] IN
          /\ st.step = "verifying"
          /\ st.payment_id = workers[w].wid
          /\ st.txid = workers[w].text

\* a submission that is answered with an error has created no payment
FailureCreatesNothing ==
    \A w \in Workers :
       /\ workers[w].pc \in {"txid_lookup", "txid_create", "txid_finish"}
       /\ workers'[w].pc = "idle"
       /\ workers'[w].out # "verifying"
       => /\ ledger' = ledger
          /\ tasks' = tasks
          /\ workers[w].wid = 0

\* C32: a FeePayment is created only by process_txid_input, while the step
\* of its owner is entering_txid, for a TXID that passes validate_txid for
\* the token and is not in the ledger.  On success the state is left at
\* verifying with the payment id and the TXID; a submission that is turned
\* away or fails has created no payment and started no task.
C32_CreationDiscipline ==
    [][/\ CreatedByTxidInput
       /\ CreatedWhileEntering
       /\ SuccessLeavesVerifying
       /\ FailureCreatesNothing]_vars

\* the part of C32 that holds
C32_CreatedByTxidInputOnly == [][CreatedByTxidInput]_vars

\* ------------------------------------------------------ TXID prompt

\* replies of the withdrawal handlers that carry an enter_txid_ button:
\* Try Again (invalid TXID, replay), Retry (system error) and Pay Withdrawal
\* Fee (security block)
EnterTxidButtonReplies == {"invalid_txid", "replay", "system_error", "security_block"}

\* the last reply that user u got from a handler shows an enter_txid_ button
EnterTxidButtonShown(u) ==
    \E w \in Workers : /\ workers[w].pc = "idle"
                        /\ workers[w].user = u
                        /\ workers[w].out \in EnterTxidButtonReplies

\* C33: when a user presses an enter_txid_ button that a reply has shown
\* (Try Again, Retry, Pay Withdrawal Fee), the state after the callback
\* sends the next text of that user to the TXID validation.
C33_PromptIsHonoured ==
    [][\A u \in Users, t \in Tokens :
          EnterTxid(u, t) /\ EnterTxidButtonShown(u) =>
             /\ InFlow(u)'
             /\ WithdrawalRoute(user_withdrawal_states'[u].step) = "txid_lookup"]_vars

\* ------------------------------------------------- command handlers

\* C34: /withdraw is handled by withdraw_command and /deposits by
\* deposits_command: no handler registered earlier takes them first.
C34_CommandsReachTheirHandler ==
    call.fn = "dispatch" =>
       /\ call.token = "withdraw" => call.handler = "withdraw_command"
       /\ call.token = "deposits" => call.handler = "deposits_command"

\* the commands registered before the catch-all do reach their handlers
EarlierCommandsReachTheirHandler ==
    call.fn = "dispatch" =>
       \A i \in 1..8 :
          call.token \in MessageHandlers[i].commands
             => call.handler = MessageHandlers[i].name

\* ------------------------------------------------------------- bans

\* db.ban_user has succeeded for user u (the admin reads "User Banned
\* Successfully") and no unban of u was ever requested
Banned(u) ==
    /\ \E c \in admin_calls : c.fn = "ban_user" /\ c.target = u
    /\ ~\E c \in admin_calls : c.fn = "unban_user" /\ c.target = u
    /\ \E w \in Workers : workers[w].out = "user_banned"

\* C35: while a user who is not the admin is banned, none of their callbacks
\* and none of their texts starts or advances a withdrawal flow or starts
\* the handling of a TXID or of an address.
C35_BannedUserIsLockedOut ==
    [][\A u \in Users :
          Banned(u) /\ ~is_admin(u) =>
             /\ \A t \in Tokens :
                   FeePaid(u, t) \/ EnterTxid(u, t)
                      => user_withdrawal_states'[u] = user_withdrawal_states[u]
             /\ \A w \in Workers :
                   TextStep(w, u) => workers'[w].pc = "idle"]_vars

\* ------------------------------------------------------ gross amount

\* worker w gets the answer of the atomic gate in this step
GateAnswers(w) ==
    /\ workers[w].pc = "addr_gate"
    /\ workers'[w].pc # "addr_gate"

\* C36: the amount that process_withdrawal_address_input submits to the gate
\* (and debits afterwards) is the withdrawal amount that fee_paid_ recorded
\* in the conversation state, and the amount of a withdrawal is the
\* withdrawal amount recorded in the FeePayment it consumes, also when the
\* holding has changed since.
C36_GrossAmountAsAcknowledged ==
    [][/\ \A w \in Workers :
            LET st == user_withdrawal_states[workers[w].user] IN
            GateAnswers(w) /\ InFlow(workers[w].user) /\ st.ctx
                           /\ st.token = workers[w].token
               => workers[w].amount = st.wamount
       /\ Len(withdrawals') > Len(withdrawals) =>
            LET wd == withdrawals'[Len(withdrawals')] IN
            wd.amount = ledger[wd.fee_payment_id].withdrawal_amount]_vars

\* ------------------------------------------------- holdings stay >= 0

\* the address handler debits the portfolio in this step
DebitStep == Len(debits') > Len(debits)

\* C37: no holding becomes negative: whenever the address handler debits,
\* the amount it debits is at most the holding at that moment, under every
\* interleaving with a second withdrawal of the user and with sell orders.
C37_HoldingNeverNegative ==
    /\ [](\A u \in Users, t \in AllTokens : portfolio[u][t].amount >= 0)
    /\ [][DebitStep =>
            LET d == debits'[Len(debits')] IN
            d.amount <= portfolio[d.user][d.token].amount]_vars

\* ----------------------------------------------------------- deposits

Credits(d) ==
    {i \in 1..Len(deposit_log) :
        deposit_log[i].kind = "credit" /\ deposit_log[i].id = d}

Rejections(d) ==
    {i \in 1..Len(deposit_log) :
        deposit_log[i].kind = "reject" /\ deposit_log[i].id = d}

\* C38: every pending deposit is settled once at most: its owner's portfolio
\* is credited for it at most once, never after it was rejected, and only
\* on the admin's callback, whatever the order and the interleaving of the
\* approve and reject callbacks.
C38_DepositSettledOnce ==
    \A d \in DepositIds :
       /\ Cardinality(Credits(d)) <= 1
       /\ \A i \in Credits(d) : /\ is_admin(deposit_log[i].by)
                                 /\ \A j \in Rejections(d) : i < j

\* the part of C38 that holds: credits and rejections are the admin's, and
\* a deposit is never rejected twice
DepositSettledByAdmin ==
    \A d \in DepositIds :
       /\ \A i \in Credits(d) \cup Rejections(d) : is_admin(deposit_log[i].by)
       /\ Cardinality(Rejections(d)) <= 1

\* ------------------------------------------------- status visibility

\* C39: the status check of a payment answers its owner with the status of
\* the payment, and any other caller with "Access denied", the same reply
\* whatever the token, the confirmation count and the status of the payment.
C39_StatusForOwnerOnly ==
    [][\A w \in Workers, u \in Users, p \in PaymentIds :
          CheckVerification(w, u, p) =>
             IF ledger[p].user = u
             THEN workers'[w].out = "status_" \o ledger[p].status
             ELSE workers'[w] = IdleWorker(u, "access_denied", "none")]_vars

\* a user was denied the status of a payment of the other user on which
\* confirmations have been counted
C39_Witness ==
    \E w \in Workers, p \in PaymentIds :
       /\ workers[w].out = "access_denied"
       /\ workers[w].user # ledger[p].user
       /\ ledger[p].confirmations >= 1
       /\ tasks[p].pc # "none"

\* ------------------------------------------------- fee_verified flag

\* the flag of user u is set, or set anew, in this step
FlagSet(u) ==
    /\ user_withdrawal_states'[u].fee_verified
    /\ \/ ~user_withdrawal_states[u].fee_verified
       \/ user_withdrawal_states'[u].token # user_withdrawal_states[u].token
       \/ user_withdrawal_states'[u].fee_payment_id
             # user_withdrawal_states[u].fee_payment_id

\* the step of user u becomes entering_address in this step
AddressStepSet(u) ==
    /\ user_withdrawal_states'[u].step = "entering_address"
    /\ user_withdrawal_states[u].step # "entering_address"

\* C40: the fee_verified flag is sound.  It is set only in a step in which
\* the lookup of a verified fee payment of the user for the token of the
\* new state succeeds, and fee_payment_id is the id that the lookup gives;
\* in every state a set flag comes with the id of a verified payment of
\* that user and token; the step entering_address is set only with the flag
\* set before or set in the same step.
C40_FeeVerifiedSound ==
    /\ [][\A u \in Users :
            LET st == user_withdrawal_states'[u] IN
            /\ FlagSet(u) =>
                  /\ get_user_verified_fee_payment(u, st.token) # 0
                  /\ st.fee_payment_id = get_user_verified_fee_payment(u, st.token)
            /\ AddressStepSet(u) =>
                  /\ st.fee_verified
                  /\ user_withdrawal_states[u].fee_verified \/ FlagSet(u)]_vars
    /\ [](\A u \in Users :
            user_withdrawal_states[u].fee_verified =>
               LET p == user_withdrawal_states[u].fee_payment_id IN
               /\ p \in PaymentIds
               /\ ledger[p].user = u
               /\ ledger[p].token = user_withdrawal_states[u].token
               /\ ledger[p].status = "verified")

\* the flag stands for a payment that was verified in this run
C40_Witness ==
    \E u \in Users :
       /\ user_withdrawal_states[u].fee_verified
       /\ user_withdrawal_states[u].step = "entering_address"
       /\ tasks[user_withdrawal_states[u].fee_payment_id].pc = "done"

====
